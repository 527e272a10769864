----------------------------- MODULE SharedDesk -----------------------------
(* What agents file through the MCP bridge (deploy/mcp-bridge/app.py): cards on *)
(* a Deck list, folders and PDFs in Nextcloud, documents in the library         *)
(* (api.py, nextcloud_deck.py, nextcloud_client.py, documents/store.py).  The   *)
(* bridge gives up on a call after 45 seconds while the call goes on, requests  *)
(* fail before or after their effect, and agents call again.                    *)
(*                                                                              *)
(* One list of one board; nobody else writes to these stores, and nobody        *)
(* deletes.  The other tools of the bridge are left out.                        *)
EXTENDS Integers, Sequences, SequencesExt

CONSTANTS
    Asks,               \* what agents ask for; fit is whether the call is well formed
    SameTitle(_, _),    \* titles that differ in case and outer spaces only
    DriveBase,          \* NEXTCLOUD_BASE_PATH, a sequence of segments
    MaxAsks, MaxDriveFaults      \* bounds

ASSUME DriveAssumption == MaxAsks \in Nat /\ MaxDriveFaults \in Nat /\ DriveBase \in Seq(STRING)

Paths == Seq(STRING) \ {<<>>}

\* What the endpoints ask of a body before they begin; title.strip().lower() compares titles.
ASSUME AsksAssumption ==
    /\ \A ask \in Asks :
          /\ ask.tool \in {"add_deck_card", "ensure_nextcloud_folders", "file_to_nextcloud", "save_document"}
          /\ ask.fit \in BOOLEAN
          /\ ask.fit => /\ ask.tool = "ensure_nextcloud_folders" => ask.paths \in Seq(Paths) \ {<<>>}
                        /\ ask.tool = "file_to_nextcloud" => ask.path \in Paths
    /\ \A a, b \in {ask \in Asks : ask.tool = "add_deck_card"} :
          SameTitle(a.title, a.title) /\ (SameTitle(a.title, b.title) => SameTitle(b.title, a.title))

VARIABLES
    cards,          \* of the list, in order
    folders,        \* paths
    pdfs,           \* content by path
    library,        \* documents in Supermemory, indexed in hermes_documents or not
    asked,          \* the calls; what a call has written is at .id, what it was told at .heard
    collided,       \* history: two calls about one card or file were in flight together
    driveFaults

driveStores == <<cards, folders, pdfs, library>>
driveVars == <<driveStores, asked, collided, driveFaults>>

DriveInit ==
    /\ cards = <<>> /\ folders = {} /\ pdfs = <<>> /\ library = <<>>
    /\ asked = <<>> /\ collided = FALSE /\ driveFaults = 0

-----------------------------------------------------------------------------
(* The bridge                                                              *)

\* Where the endpoint of a tool begins; a call that is not fit ends there, and folders
\* are only made with confirm.
Begins(ask) ==
    IF ~ask.fit THEN "over" ELSE
    CASE ask.tool = "add_deck_card" -> "search"
      [] ask.tool = "ensure_nextcloud_folders" -> IF ask.confirm THEN "folder" ELSE "over"
      [] ask.tool = "file_to_nextcloud" -> "exists"
      [] ask.tool = "save_document" -> "remember"

SameThing(a, b) ==
    /\ a.tool = b.tool
    /\ a.tool = "add_deck_card" => SameTitle(a.title, b.title)
    /\ a.tool = "file_to_nextcloud" => a.path = b.path

CallTool(ask) ==
    /\ Len(asked) < MaxAsks
    /\ asked' = Append(asked, [ask |-> ask, at |-> Begins(ask), id |-> 0,
                               heard |-> IF ~ask.fit THEN "error" ELSE IF Begins(ask) = "over" THEN "preview" ELSE ""])
    /\ collided' = (collided \/ \E n \in DOMAIN asked : asked[n].at # "over" /\ SameThing(asked[n].ask, ask))
    /\ UNCHANGED <<driveStores, driveFaults>>

\* _api(): nothing after 45 seconds is an error, and the endpoint goes on.
BridgeGivesUp(n) ==
    /\ asked[n].heard = "" /\ asked' = [asked EXCEPT ![n].heard = "error"]
    /\ UNCHANGED <<driveStores, collided, driveFaults>>

ToldNow(n, say) == IF asked[n].heard = "" THEN say ELSE asked[n].heard
Ends(n, say) == asked' = [asked EXCEPT ![n].at = "over", ![n].heard = ToldNow(n, say)]
GoesOn(n, place, id) == asked' = [asked EXCEPT ![n].at = place, ![n].id = id]

\* A request of call n fails, is refused, or is answered too late; done says what it may
\* have done all the same.
DriveFails(n, done) ==
    /\ driveFaults < MaxDriveFaults /\ driveFaults' = driveFaults + 1
    /\ done /\ Ends(n, "error") /\ UNCHANGED collided

Works == UNCHANGED <<collided, driveFaults>>

-----------------------------------------------------------------------------
(* DeckClient.create_card()                                                *)

Twin(card, title) == SameTitle(card.title, title)

SearchList(n) ==
    /\ asked[n].at = "search"
    /\ \/ Works /\ IF \E c \in ToSet(cards) : Twin(c, asked[n].ask.title) THEN Ends(n, "exists") ELSE GoesOn(n, "post", 0)
       \/ DriveFails(n, TRUE)
    /\ UNCHANGED driveStores

\* POST ignores the due date.
PostCard(n) ==
    /\ asked[n].at = "post"
    /\ LET posted == cards' = Append(cards, [title |-> asked[n].ask.title, due |-> FALSE]) IN
       \/ Works /\ posted /\ IF asked[n].ask.due THEN GoesOn(n, "due", Len(cards) + 1) ELSE Ends(n, "ok")
       \/ DriveFails(n, posted \/ UNCHANGED cards)
    /\ UNCHANGED <<folders, pdfs, library>>

PutDue(n) ==
    /\ asked[n].at = "due"
    /\ LET put == cards' = [cards EXCEPT ![asked[n].id].due = TRUE] IN
       \/ Works /\ put /\ Ends(n, "ok")
       \/ DriveFails(n, put \/ UNCHANGED cards)
    /\ UNCHANGED <<folders, pdfs, library>>

-----------------------------------------------------------------------------
(* NextcloudClient                                                         *)

\* _rel_with_base()
Based(path) == DriveBase \o path

Upto(path) == {SubSeq(path, 1, k) : k \in 1..Len(path)}

\* path_exists(), of a folder or a file.
PathExists(path) == Based(path) \in folders \cup DOMAIN pdfs

\* ensure_dirs(): every ancestor in turn.
MakeDirs(path) == folders' = folders \cup Upto(Based(path))
MakeSome(path) == \E k \in 0..Len(Based(path)) : folders' = folders \cup Upto(SubSeq(Based(path), 1, k))

\* nextcloud_ensure_folders(): path by path, read back at the end.
EnsureFolder(n) ==
    /\ asked[n].at = "folder"
    /\ LET paths == asked[n].ask.paths
           k == asked[n].id + 1
       IN  \/ /\ Works /\ MakeDirs(paths[k])
              /\ IF k < Len(paths) THEN GoesOn(n, "folder", k)
                 ELSE Ends(n, IF \A j \in 1..k : Based(paths[j]) \in folders' THEN "ok" ELSE "error")
           \/ DriveFails(n, MakeSome(paths[k]))
    /\ UNCHANGED <<cards, pdfs, library>>

\* A faulty file_document() that lets an upload replace what is there.
FindsNothing(path) == FALSE
Finds(path) == PathExists(path)

\* file_document(overwrite=False)
LookForFile(n) ==
    /\ asked[n].at = "exists"
    /\ \/ Works /\ IF Finds(asked[n].ask.path) THEN Ends(n, "error") ELSE GoesOn(n, "put", 0)
       \/ DriveFails(n, TRUE)
    /\ UNCHANGED driveStores

With(path, content) == [q \in DOMAIN pdfs \cup {path} |-> IF q = path THEN content ELSE pdfs[q]]

\* put_file()
PutFile(n) ==
    /\ asked[n].at = "put"
    /\ LET path == asked[n].ask.path
           put == MakeDirs(Front(path)) /\ pdfs' = With(Based(path), asked[n].ask.content)
       IN  \/ Works /\ put /\ GoesOn(n, "verify", 0)
           \/ DriveFails(n, put \/ (MakeSome(Front(path)) /\ UNCHANGED pdfs))
    /\ UNCHANGED <<cards, library>>

\* nextcloud_upload() reads back the path that put_file() returned, base and all.
VerifyFile(n) ==
    /\ asked[n].at = "verify"
    /\ \/ Works /\ Ends(n, IF PathExists(Based(asked[n].ask.path)) THEN "ok" ELSE "error")
       \/ DriveFails(n, TRUE)
    /\ UNCHANGED driveStores

-----------------------------------------------------------------------------
(* save_document(): the content first, then the row that lists it.         *)

Remember(n) ==
    /\ asked[n].at = "remember"
    /\ LET added == library' = Append(library, [title |-> asked[n].ask.title, indexed |-> FALSE]) IN
       \/ Works /\ added /\ GoesOn(n, "index", Len(library) + 1)
       \/ DriveFails(n, added \/ UNCHANGED library)
    /\ UNCHANGED <<cards, folders, pdfs>>

IndexDocument(n) ==
    /\ asked[n].at = "index"
    /\ LET listed == library' = [library EXCEPT ![asked[n].id].indexed = TRUE] IN
       \/ Works /\ listed /\ Ends(n, "ok")
       \/ DriveFails(n, listed \/ UNCHANGED library)
    /\ UNCHANGED <<cards, folders, pdfs>>

DriveNext ==
    \/ \E ask \in Asks : CallTool(ask)
    \/ \E n \in DOMAIN asked :
          \/ BridgeGivesUp(n) \/ SearchList(n) \/ PostCard(n) \/ PutDue(n) \/ EnsureFolder(n)
          \/ LookForFile(n) \/ PutFile(n) \/ VerifyFile(n) \/ Remember(n) \/ IndexDocument(n)

DriveSpec == DriveInit /\ [][DriveNext]_driveVars

-----------------------------------------------------------------------------
(* Properties                                                              *)

\* However often a card is asked for, and whatever the calls before have failed at, the
\* list has one card of its title.  Two calls in flight together may make two.
OneCardPerTitle ==
    ~collided => \A c, d \in DOMAIN cards : SameTitle(cards[c].title, cards[d].title) => c = d

Standing(ask) ==
    /\ ask.tool = "add_deck_card" => \E c \in ToSet(cards) : SameTitle(c.title, ask.title)
    /\ ask.tool = "ensure_nextcloud_folders" => \A k \in DOMAIN ask.paths : Upto(Based(ask.paths[k])) \subseteq folders
    /\ ask.tool = "file_to_nextcloud" => /\ Upto(Based(Front(ask.path))) \subseteq folders
                                         /\ Based(ask.path) \in DOMAIN pdfs /\ pdfs[Based(ask.path)] = ask.content
    /\ ask.tool = "save_document" => \E d \in ToSet(library) : d.title = ask.title /\ d.indexed

\* What an agent was told is done stays done: its own file, and not another's of the
\* same name, is at the path, and what is listed can be recalled.
ToldMeansStanding ==
    ~collided => \A n \in DOMAIN asked : asked[n].heard = "ok" => Standing(asked[n].ask)

\* What agents ask of the shared desk is there when they are told so, and is there once.
DriveSafe == OneCardPerTitle /\ ToldMeansStanding

=============================================================================

------------------------ MODULE MCRenewalCorrections ------------------------
(***************************************************************************)
(* Small instances of RenewalCorrections, in two parts:                    *)
(*   "alone"  one person at the desk, beside a book that moves, plain      *)
(*            edits of the row and failures, MaxAround of these together,  *)
(*            with up to two overrides;                                    *)
(*   "pair"   two people at the desk beside the rebuild, with up to        *)
(*            MaxOverrides overrides and nothing else going on.            *)
(***************************************************************************)
EXTENDS RenewalCorrections

CONSTANTS
    ann, ben, low, high,
    MaxAround       \* bound on the moves, edits and failures of a behaviour together

VARIABLE part

mcvars == <<vars, part>>

MCInit ==
    /\ Init /\ part \in {"alone", "pair"}
    /\ part = "pair" => book.premium = low

\* What a step may do in its part.
Within ==
    /\ part' = part
    /\ part = "alone" => /\ asked'[ben].at = "rest" /\ Len(overrides') <= 2
                       /\ moves' + patches' + faults' <= MaxAround
    /\ part = "pair" => UNCHANGED <<moves, patches, faults, desk.worked>>

MCNext == Next /\ Within

MCSpec ==
    /\ MCInit /\ [][MCNext]_mcvars
    /\ WF_mcvars(Rebuild /\ Within)
    /\ \A p \in Person : WF_mcvars(Handle(p) /\ Within)
=============================================================================

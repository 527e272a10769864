-------------------------- MODULE MCStatementInbox --------------------------
EXTENDS StatementInbox

Cell(n) == [as |-> "plain", n |-> n]
Nothing == [as |-> "blank", n |-> 0]
MCRow(p, month, toDate, page) == [policy |-> p, month |-> month, toDate |-> toDate, page |-> page]
Sheet(suffix, tabs, header, rows) ==
    [suffix |-> suffix, tabs |-> tabs, named |-> FALSE, header |-> header, rows |-> rows, layer |-> <<>>, stated |-> {}]

\* A later month of NEXT, Progressive's workbook with its totals, a sheet that ends in a total,
\* a PDF whose second page is a picture, and a format nothing reads.
MCDocument == <<
    Sheet("csv", {""}, {"agency commission paid this month", "policy number", "agent commission"},
          <<MCRow("P1", Cell(5), Cell(10), 1)>>),
    [Sheet("xlsx", {"Detailed", "Summary"}, {"Tran Code", "Policy Number"},
           <<MCRow("P2", Cell(8), Cell(8), 1), MCRow("P2", [as |-> "parens", n |-> 3], Nothing, 1)>>) EXCEPT !.stated = {5}],
    [Sheet("pdf", {}, {}, <<MCRow("P1", Cell(4), Nothing, 1), MCRow("P2", Cell(2), Nothing, 2)>>) EXCEPT !.layer = <<TRUE, FALSE>>],
    Sheet("xlsx", {"Sheet1"}, {"policy", "commission"}, <<MCRow("P2", Cell(6), Nothing, 1), MCRow("", Cell(6), Nothing, 1)>>),
    Sheet("xls", {}, {}, <<>>)>>

MCNoApprovals == <<0, 0>>
MCTwoDocuments == SubSeq(MCDocument, 1, 2)
=============================================================================

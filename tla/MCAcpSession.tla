--------------------------- MODULE MCAcpSession ---------------------------
EXTENDS AcpSession

U(sort, kind, text, terminal, diff, title) ==
  [sort |-> sort, kind |-> kind, text |-> text, terminal |-> terminal, diff |-> diff, title |-> title]

(* An edit without a title: the classification has to read its diff.        *)
UpdatesModel == {U("tool", "none", FALSE, FALSE, TRUE, FALSE)}
===========================================================================

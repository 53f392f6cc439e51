---------------------------- MODULE MCMcpServer ----------------------------
(* Two pages: links in a hidden element, in a landmark and in the item of  *)
(* a list; and texts beside each other, one without a name, and a widget.  *)
EXTENDS McpServer

El(depth, kind, hidden) == [depth |-> depth, kind |-> kind, hidden |-> hidden]
MCServed ==
    [a |-> <<El(1, "plain", TRUE), El(2, "link", FALSE), El(1, "region", FALSE), El(2, "link", FALSE),
             El(2, "list", FALSE), El(3, "item", FALSE), El(4, "link", FALSE)>>,
     b |-> <<El(1, "text", FALSE), El(1, "blank", FALSE), El(2, "link", FALSE),
             El(1, "text", FALSE), El(2, "link", FALSE), El(1, "widget", TRUE), El(2, "link", FALSE)>>]

=============================================================================

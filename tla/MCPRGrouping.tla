---------------------------- MODULE MCPRGrouping ----------------------------
(* Five findings in two files: a high one and a low one of one category, a high one *)
(* and a twin of the low one that come up later, and a critical one without a file. *)
EXTENDS PRGrouping

Finding(category, file, line, title, rank) ==
  [category |-> category, file |-> file, line |-> line, title |-> title, rank |-> rank]
MCAttr == <<Finding(1, 1, 1, 1, 1), Finding(1, 2, 1, 1, 3), Finding(2, 1, 2, 2, 1),
            Finding(1, 2, 1, 1, 3), Finding(3, 0, 0, 3, 0)>>
MCIdOrders == {<<1, 2, 3, 4, 5>>, <<5, 4, 3, 2, 1>>}
=============================================================================

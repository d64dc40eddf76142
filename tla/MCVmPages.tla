----------------------------- MODULE MCVmPages -----------------------------
EXTENDS VmPages
CONSTANTS t1, t2
MCThreads == {t1, t2}
MCAllowed == {t2}
MCWatch == 7 .. 9
MCData == {11}
MCImage == {13}
MCWorlds == {0 .. 5, 7 .. 9, 8 .. 9, {9, 11}, {11, 13}}
MCLimits == {2, 5}
Want(access, guard) == [access |-> access, guard |-> guard]
MCProtects ==
  [v \in SUBSET Watch \cup {Data, Image} |->
     CASE v = Data -> {Want("readonly", FALSE), Want("execute_readwrite", FALSE), Want("readwrite", TRUE)}
       [] v = Image -> {Want("readwrite", FALSE), Want("execute_read", FALSE), Want("execute_writecopy", FALSE)}
       [] v = Watch -> {}
       [] OTHER -> {Want("readonly", FALSE), Want("readwrite", FALSE)}]
=============================================================================

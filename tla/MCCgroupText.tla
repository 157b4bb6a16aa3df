--------------------------- MODULE MCCgroupText ---------------------------
(* Every short text around the boundaries of numbers of the width 105, every *)
(* file of up to three lines, and every short path and command name.         *)
EXTENDS CgroupText

MCTokens == BoundedSeq({0, 1, 5, 6, 10}, 5)
MCNumbers == {0, 1, 2, 3, 4, 6, 105, 106}
MCQuotas == (MCNumbers \cup {NoValue}) \X MCNumbers
MCLevels == MCQuotas \X MCQuotas
MCCpuLists == BoundedSeq(({0, 1, 2, 3, 5, 7, 8} \X {1, 2, 4, 6, 7, 8}) \cup {<<>>}, 3)
MCLines == {[shape |-> "blank", key |-> "", value |-> 0], [shape |-> "words", key |-> "low", value |-> 0]}
    \cup [shape : {"pair"}, key : {"low", "max", "new", "?"}, value : {0, 105, 106}]
MCCounterFiles == BoundedSeq(MCLines, 3)

MCMemberships ==
    BoundedSeq([id : {"0", "5", "?"}, controllers : {"none", "cpu"},
                path : {"absolute", "dots"}, deleted : BOOLEAN] \cup {NoText}, 3)

MCRoots == {<<>>, <<"a">>, <<"a", "b">>, <<"ab">>, <<".">>}
MCMountinfos ==
    BoundedSeq([id : {0, 1, 2, 3}, type : {"cgroup2", "proc"}, root : MCRoots], 2)
    \X {<<>>, <<"a">>, <<"a", "b", "c">>, <<"ab">>, <<"a", "">>}

MCPaths == BoundedSeq({" ", "tab", "newline", "\\", "0", "1", "2", "3", "4"}, 4)
MCCommands == BoundedSeq({"x", " ", "(", ")"}, 4)
===========================================================================

------------------------------ MODULE MCDriver ------------------------------
(* Two workers; up to three files to compress, two of them names of one, and *)
(* two that cannot be.                                                       *)
EXTENDS Driver

MCPaths == {"a", "b", "link", "done", "odd"}
MCInode == [p \in MCPaths |-> IF p = "link" THEN "b" ELSE p]
MCSize == [p \in MCPaths |-> IF p = "a" THEN 2 ELSE 1]
MCCompressable == {"a", "b", "link"}
MCCompressed0 == {"done"}

File(p) == [folder |-> FALSE, paths |-> <<p>>]
Folder(ps) == [folder |-> TRUE, paths |-> ps]
MCArgLists == {
    <<File("a"), File("odd")>>,
    <<File("odd"), Folder(<<"a", "b", "a">>), File("done"), File("b")>>,
    <<Folder(<<"b", "done", "link">>)>>,
    <<Folder(<<"a", "b">>), Folder(<<"odd", "link">>)>>,
    <<File("done")>>}

Setting(links, sort, jobs, reverse) ==
    [links |-> links, sort |-> sort, jobs |-> jobs, reverse |-> reverse]
MCSettings == {
    Setting(TRUE, FALSE, 2, 0), Setting(FALSE, TRUE, 2, 1), Setting(TRUE, FALSE, 1, 0)}
=============================================================================

----------------------------- MODULE MCFileTools -----------------------------
(***************************************************************************)
(* FileTools on texts of two letters and ends of lines, on a system that    *)
(* ends them with \r\n: an edit of a letter, of a pair that may overlap      *)
(* itself, of the empty text and of an end of a line, lists of edits that   *)
(* depend on each other, texts below and over the limit.                    *)
(***************************************************************************)
EXTENDS FileTools, TLC

Ask(tool, edits, t) == [tool |-> tool, edits |-> edits, text |-> t]
E(o, n) == [old |-> o, new |-> n]

MCCoding ==
    {Ask("edit_file", <<e>>, <<>>) :
        e \in {E(<<1>>, <<2>>), E(<<1, 1>>, <<2>>), E(<<>>, <<1>>), E(<<LF>>, <<1, LF>>)}}
    \cup {Ask("multi_edit", es, <<>>) :
            es \in {<<E(<<1>>, <<2, 2>>), E(<<2, LF>>, <<>>)>>, <<E(<<2>>, <<1>>), E(<<1>>, <<>>)>>}}
    \cup {Ask("write_file", <<>>, t) : t \in {<<1, LF>>, <<1, 2, 1>>}}
    \cup {Ask("read_file", <<>>, <<>>)}
MCPlain ==
    {Ask("write", <<>>, <<1, 2>>), Ask("delete", <<>>, <<>>), Ask("read", <<>>, <<>>)}
MCTexts == {<<>>, <<1>>, <<2, CR>>, <<1, 1, 1>>, <<1, CR, LF, 2>>, Missing, Folder}
MCLineSep == <<CR, LF>>
Symmetric == Permutations(Calls)

=============================================================================

----------------------------- MODULE MCLibrary -----------------------------
(* An instance of the libraries: five cells that hold an end, a plain or a *)
(* high character; formats of up to two items; a message of three pieces   *)
(* around a block of four bytes.                                           *)
EXTENDS Library

Item(fmt, args, text) == [fmt |-> fmt, args |-> args, text |-> text]
MCFormats ==
  <<Item(<<"a">>, <<>>, <<"a">>),
    Item(<<"%", "s">>, <<<<"b", "c">>>>, <<"b", "c">>),
    Item(<<"%", "s">>, <<<<>>>>, <<>>),
    Item(<<"%", "d">>, <<0>>, <<"0">>),
    Item(<<"%", "d">>, <<120>>, <<"1", "2", "0">>),
    Item(<<"%", "d">>, <<-7>>, <<"-", "7">>),
    Item(<<"%", "d">>, <<-INT_MAX - 1>>, <<"-">>),
    Item(<<"%", "x">>, <<26>>, <<"1", "a">>),
    Item(<<"%", "l", "x">>, <<159>>, <<"9", "f">>),
    Item(<<"%", "l", "d">>, <<>>, <<>>),
    Item(<<"%", "%">>, <<>>, <<"%", "%">>)>>
\* The last one runs past its end, into a string behind it.
MCTails ==
  <<Item(<<"nul">>, <<>>, <<>>), Item(<<"%", "nul">>, <<>>, <<>>),
    Item(<<"%", "l", "nul", "z", "nul">>, <<>>, <<"z">>)>>
MCNumbers == SeqOf({"0", "1", "7", "9", "b", "F", "x", "z"}, 3)
MCCharacters == {0, 1, 3, -1}
=============================================================================

------------------------------ MODULE MCStorage ------------------------------
(* Storage with contents of one or two pieces: what is written over is longer. *)
EXTENDS Storage

AllStrings == STRING
DemoText == <<"d", "d">>
HowtoText == <<"h", "h">>
OneScript == {<<"s">>}
TwoPieces == <<"u", "v">>
OneName == {<<"n">>}
OldDefault == <<"e", "e">>
NewDefault == <<"e", "-", "e">>
OneRecord == {<<"r">>}
OneSlot == {3}

=============================================================================

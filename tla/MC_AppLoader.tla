---------------------------- MODULE MC_AppLoader ----------------------------
(* Two images of three sections; each can be loaded into RAM or    *)
(* with its sections that are not written in flash.                         *)
EXTENDS AppLoader

ThreeSections == {1, 2, 3}
Image(refs, ro, size, align, roots) ==
    [refs |-> refs, ro |-> ro, size |-> size, align |-> align, roots |-> roots]

MCImages == {
    \* code and aligned constants that refer to each other, _init in flash of its own
    Image(<<{1, 2}, {1}, {2}>>, {1, 2, 3}, <<3, 1, 1>>, <<1, 2, 1>>, <<3, 1, 0>>),
    \* one section in flash, data in RAM, a signal handler
    Image(<<{2, 3}, {3}, {}>>, {1}, <<2, 1, 1>>, <<1, 1, 1>>, <<0, 1, 2>>) }
=============================================================================

----------------------------- MODULE MC_Firmware -----------------------------
(* Three sectors of two pages and files of every kind. *)
EXTENDS Firmware

MCFiles == { <<0, 2, 3>>,     \* a first sector cut short, and another
             <<0, 1, 4>>,     \* a sector skipped
             <<2, 3>>,        \* a program without the first sector
             <<6, 0>>,        \* a file that starts with the block at 0xFFFF00
             <<0, 1, 6>>,     \* and one that ends with it
             <<0, 1, 2, 3>> } \* too large
=============================================================================

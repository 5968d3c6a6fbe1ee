---------------------------- MODULE MCConfigFlash ----------------------------
(***************************************************************************)
(* Small instances of ConfigFlash.  Trees "a" and "b" have serialisations  *)
(* of the same length that share a word; "long" is longer.  "bad"          *)
(* stands for what altered data may parse to.                              *)
(***************************************************************************)
EXTENDS ConfigFlash

AllTrees == {"a", "b", "long", "bad"}
Words == [t \in AllTrees |->
            CASE t = "a"    -> <<"k", "x", "m">>
              [] t = "b"    -> <<"k", "y", "m">>
              [] t = "long" -> <<"k", "z", "z", "m">>
              [] t = "bad"  -> <<"k", "w", "m">>]
\* "long" is two words longer: the chain then ends 4, 2 or no words before the end of a
\* sector of 16 words.
WordsToTheEnd == [Words EXCEPT !["long"] = <<"k", "z", "z", "z", "m">>]

Shell == {"shell"}
WholeSector == [c \in Shell |-> SIZE]

\* skel_user.c declares _config_start and _config_end as uint32_t, so that the
\* difference of their addresses is a quarter of the size in bytes.  A tree always
\* fits in a quarter of 128 kB: here in HEADER + 5 words.
Both == {"shell", "aseba"}
PartForAseba == [c \in Both |-> IF c = "aseba" THEN HEADER + 5 ELSE SIZE]

\* An interrupted erase: nothing, everything, or all cells on one side of a cell.
Tears == {{}, Cells} \cup {0 .. k : k \in Cells} \cup {k .. SIZE - 1 : k \in Cells}
NoTears == {}
==============================================================================

---------------------------- MODULE MCSharedMem ----------------------------
(* Model-checking instance of SharedMem: three process slots, so that a    *)
(* parent and two children can share a page and a slot is reused; two ids *)
(* and two pool entries, so that a process can open a second id; pages up *)
(* to 2, so that growproc can run into a shared page.                      *)
EXTENDS SharedMem, TLC

MCIds == {1, 2}
====

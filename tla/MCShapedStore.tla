--------------------------- MODULE MCShapedStore ---------------------------
(***************************************************************************)
(* A two-queue interface reduced to three marks: a user mark on the first  *)
(* queue, one on the second, and the first queue's default class.          *)
(***************************************************************************)
EXTENDS ShapedStore, Marks

MCQueues == 2
MCMark == {Join(1, 2), Join(2, MinorSpan - 1), DefaultMark(1)}
MCUserMark == {m \in MCMark : Split(m, MCQueues).ok}
=============================================================================

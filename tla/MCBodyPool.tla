----------------------------- MODULE MCBodyPool -----------------------------
(* Bounds for BodyPool: room for one plain body and three pooled ones, so the
   free list reaches length three and is exhausted, and reservations that are
   smaller and larger than what is already pooled. *)
EXTENDS BodyPool

MCMaxBodies    == 4
MCReservations == {1, 3}
=============================================================================

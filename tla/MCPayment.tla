----------------------------- MODULE MCPayment -----------------------------
(* Payment on a small instance: two submissions for one lesson beside one  *)
(* goroutine of the schedule service.                                      *)
EXTENDS Payment
=============================================================================

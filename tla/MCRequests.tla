----------------------------- MODULE MCRequests -----------------------------
(* Requests by every route, and by the routes that list assignments. *)
EXTENDS Requests

AllRoutes == Route

AssignmentLists == homeworkQueryIds
=============================================================================

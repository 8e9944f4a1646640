------------------------------ MODULE MCPaging ------------------------------
(* Paging with six rows in three instants, two to a page.                  *)
EXTENDS Paging

MCStamp == <<1, 2, 2, 2, 3, 3>>
=============================================================================

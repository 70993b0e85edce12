------------------------------- MODULE MCPages ------------------------------
(* A page of 32 bytes with keys of one to six bytes.  Behind its header an  *)
(* internal page has 18 bytes, room for one to four separators, and as on a *)
(* page of 4096 bytes with keys of up to 512, half of the separators by     *)
(* number can be too much for a page that gets a high key as well.          *)
EXTENDS Pages

MCKeyLen == <<1, 2, 4, 1, 6, 1>>
MCValueLen == {0, 3}
=============================================================================

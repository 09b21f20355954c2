---------------------------- MODULE MCSelectAll ----------------------------
(* Every list of up to 12 receivers: past two powers of two, so the final  *)
(* fold combines three levels of different heights (7 and 11 streams).    *)
EXTENDS SelectAll

MCMaxStreams == 12

=============================================================================

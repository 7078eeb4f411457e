------------------------------ MODULE MCChannel -----------------------------
(***************************************************************************)
(* A channel that carries a short and a long message, sockets that hold    *)
(* little more than a length.                                              *)
(***************************************************************************)
EXTENDS Channel

OneAndThreeBytes == {<<1>>, <<2, 3, 2>>}

NodeId == <<0, 1>>
=============================================================================

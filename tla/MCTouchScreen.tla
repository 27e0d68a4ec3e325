----------------------------- MODULE MCTouchScreen -----------------------------
(***************************************************************************)
(* Three packets told apart: the one that an answer is made of, the one    *)
(* before it and the one after.                                            *)
(***************************************************************************)
EXTENDS TouchScreen
===============================================================================

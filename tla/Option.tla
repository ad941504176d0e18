------------------------------- MODULE Option -------------------------------
(***************************************************************************)
(* What a call returns when it returns nothing: Option::None, or an Err    *)
(* whose reason no caller looks at.                                        *)
(***************************************************************************)
CONSTANT None
=============================================================================

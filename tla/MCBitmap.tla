------------------------------ MODULE MCBitmap ------------------------------
(* Model-checking instance of Bitmap: six bits in bytes of four, so that   *)
(* the second byte has two bits of padding.                                *)
EXTENDS Bitmap
=============================================================================

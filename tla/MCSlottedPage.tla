---------------------------- MODULE MCSlottedPage ----------------------------
(* SlottedPage on a page of 32 bytes: 20 between header and end, room for    *)
(* five empty records or two of five bytes.                                  *)
EXTENDS SlottedPage, TLC
CONSTANTS a, b
=============================================================================

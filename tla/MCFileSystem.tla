---------------------------- MODULE MCFileSystem ----------------------------
(* Model-checking instance of FileSystem: four inodes and directories of   *)
(* two entries, so that an inode table, a directory and the device can be  *)
(* full.  Names are sets of bits: 'a' and 'b', and a character that looks  *)
(* as the bitmap does when the root and inode 1 are in use, as '?' does    *)
(* with six inodes.                                                        *)
EXTENDS FileSystem

Letters == {{0, 5, 6}, {1, 5, 6}}
LetterAndBitmap == {{0, 5, 6}, {0, 1}}
=============================================================================

-------------------------- MODULE BlockSourceCopier --------------------------
(***************************************************************************)
(* BlockSourceCopier::copy (src/tce/src/applibs/ProGe/                     *)
(* BlockSourceCopier.cc): the processor generator copies the VHDL files    *)
(* of every FU, RF and IU implementation named by the implementation       *)
(* definition into dst/vhdl, then the decompressor, ifetch and opcodes     *)
(* files into dst/gcu_ic.                                                  *)
(*                                                                         *)
(* Files are model values.  Abs gives the absolute path a block's file is  *)
(* found at (FileSystem::findFileInSearchPaths over the HDB's VHDL paths), *)
(* Base its file name (FileSystem::fileOfPath).  The destination directory *)
(* is the function dst from <<subdirectory, file name>> to the source file *)
(* whose contents it holds.  FileSystem is not in the tree: a copy either  *)
(* writes the target, replacing what it held, or fails with an I/O error.  *)
(***************************************************************************)
EXTENDS Integers, Sequences, TLC

CONSTANTS
  Blocks,         \* << FU implementations, then RFs, then IUs >>: each a Seq of files
  Abs,            \* [files -> absolute paths]
  Base,           \* [absolute paths -> file names]
  HasDecompressor,  \* implementation_.hasDecompressorFile()
  DecompressorFile, \* implementation_.decompressorFile()
  DataFiles,      \* [{"decompressor", "ifetch", "opcodes"} -> the ProGe data dir files]
  NONE

BlockFiles == UNION { { Blocks[k][j] : j \in DOMAIN Blocks[k] } : k \in DOMAIN Blocks }

VARIABLES
  pc,         \* "files", "gcu_ic", "decompressor", "ifetch", "opcodes", "done"
  blk,        \* the block being copied (index into Blocks)
  idx,        \* copyFiles' loop index i, from 1
  copied,     \* copiedFiles_: absolute paths already copied
  dst,        \* [<<dir, name>> -> absolute path]: the destination directory
  gcuExists,  \* dst/gcu_ic exists
  err         \* the exception thrown, or NONE

vars == << pc, blk, idx, copied, dst, gcuExists, err >>

\* setCopied / isCopied
SetCopied(f) == copied' = copied \cup {f}
IsCopied(f) == f \in copied

\* FileSystem::copy(src, target): writes the target or fails.
CopyTo(src, target) == dst' = (target :> src) @@ dst

RECURSIVE NextBlock(_)
NextBlock(k) == IF k > Len(Blocks) \/ Blocks[k] # << >> THEN k ELSE NextBlock(k + 1)

\* copy() starts with the first file of the first block that has files; the
\* gcu_ic directory may be left from an earlier run.
Init ==
  /\ blk = NextBlock(1)
  /\ pc = IF NextBlock(1) > Len(Blocks) THEN "gcu_ic" ELSE "files"
  /\ idx = 1
  /\ copied = {}
  /\ dst = << >>
  /\ gcuExists \in BOOLEAN
  /\ err = NONE

\* The next file position after (blk, idx): the next file of the block,
\* the first file of the next non-empty block, or the gcu_ic step.
Advance ==
  IF idx < Len(Blocks[blk])
    THEN idx' = idx + 1 /\ blk' = blk /\ pc' = "files"
    ELSE LET k == NextBlock(blk + 1)
         IN /\ blk' = k
            /\ idx' = 1
            /\ pc' = IF k > Len(Blocks) THEN "gcu_ic" ELSE "files"

(***************************************************************************)
(* copyFiles, one iteration (reached through copy()'s FU loop and through  *)
(* copyBaseRFFiles for the RF and IU loops): a file not copied before is   *)
(* copied to dst/vhdl/<its file name>; a failed copy throws                *)
(* UnreachableStream.                                                      *)
(***************************************************************************)
CopyFile ==
  /\ pc = "files"
  /\ LET a == Abs[Blocks[blk][idx]]
     IN IF IsCopied(a)
          THEN Advance /\ UNCHANGED << copied, dst, err >>
          ELSE \/ /\ CopyTo(a, << "vhdl", Base[a] >>)
                  /\ SetCopied(a)
                  /\ Advance
                  /\ UNCHANGED err
               \/ /\ err' = "UnreachableStream"
                  /\ UNCHANGED << pc, blk, idx, copied, dst >>
  /\ UNCHANGED gcuExists

\* Create dst/gcu_ic unless it exists; failing throws IOException.
MakeGcuDir ==
  /\ pc = "gcu_ic"
  /\ \/ /\ gcuExists
        /\ pc' = "decompressor"
        /\ UNCHANGED << gcuExists, err >>
     \/ /\ ~gcuExists
        /\ gcuExists' = TRUE
        /\ pc' = "decompressor"
        /\ UNCHANGED err
     \/ /\ ~gcuExists
        /\ err' = "IOException"
        /\ UNCHANGED << pc, gcuExists >>
  /\ UNCHANGED << blk, idx, copied, dst >>

\* The files copied into dst/gcu_ic, in order.
GcuSource(step) ==
  IF step = "decompressor" /\ HasDecompressor THEN DecompressorFile ELSE DataFiles[step]

NextGcuStep(step) ==
  CASE step = "decompressor" -> "ifetch"
    [] step = "ifetch"       -> "opcodes"
    [] step = "opcodes"      -> "done"

\* The decompressor (the IDF's own or the default), ifetch and opcodes
\* package copies; FileSystem::copy's exception propagates.
CopyGcuFile ==
  /\ pc \in {"decompressor", "ifetch", "opcodes"}
  /\ \/ /\ CopyTo(GcuSource(pc), << "gcu_ic", Base[GcuSource(pc)] >>)
        /\ pc' = NextGcuStep(pc)
        /\ UNCHANGED err
     \/ /\ err' = "IOException"
        /\ UNCHANGED << pc, dst >>
  /\ UNCHANGED << blk, idx, copied, gcuExists >>

Next ==
  /\ err = NONE
  /\ \/ CopyFile
     \/ MakeGcuDir
     \/ CopyGcuFile

Spec == Init /\ [][Next]_vars

-----------------------------------------------------------------------------
\* Where a block file or a gcu_ic file should end up.
Required ==
  { << << "vhdl", Base[Abs[f]] >>, Abs[f] >> : f \in BlockFiles }
    \cup { << << "gcu_ic", Base[GcuSource(s)] >>, GcuSource(s) >> :
             s \in {"decompressor", "ifetch", "opcodes"} }

====

----------------------------- MODULE MCJitHooks -----------------------------
EXTENDS JitHooks, TLC

CONSTANTS pc, mem, mmap

\* Two small events fill a chunk exactly, a small and a large one do not fit.
MCSize == (pc :> 2) @@ (mem :> 3) @@ (mmap :> 1)
=============================================================================

------------------------------ MODULE MCOrderly ------------------------------
(* What an orderly host of the CD block, and an orderly program of the VDP, *)
(* may count on, for TLC: a host that ends every transfer first, and a      *)
(* program that writes VDP1's memory, or its registers, behind late render  *)
(* threads.                                                                 *)
EXTENDS CDTransfer, VdpRenderThreads

VARIABLE side

OrderlyInit ==
    /\ side \in {"transfers", "memory", "registers"}
    /\ Init
    /\ ThreadsInit

OrderlyNext ==
    /\ UNCHANGED side
    /\ \/ side = "transfers" /\ Next
       \/ side # "transfers" /\ UNCHANGED vars
    /\ \/ side = "memory" /\ ThreadsNext /\ UNCHANGED regs
       \/ side = "registers" /\ ThreadsNext /\ UNCHANGED vram
       \/ side = "transfers" /\ UNCHANGED threadVars

OrderlySpec == OrderlyInit /\ [][OrderlyNext]_<<side, vars, threadVars>>
=============================================================================

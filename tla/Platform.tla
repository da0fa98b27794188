------------------------------ MODULE Platform ------------------------------
(***************************************************************************)
(* The machine below the kernel: the interrupt controllers of the PC (Pic)  *)
(* and, in builds for several processors, their start-up and the calls      *)
(* between them (Smp).  The two have no state in common, so that both        *)
(* specifications together describe the machine.                            *)
(***************************************************************************)
EXTENDS Pic, Smp

PlatformSpec == PicSpec /\ SmpSpec

(***************************************************************************)
(* A device's interrupt arrives at its own handler, whatever was masked,    *)
(* acknowledged or spurious before; the processors that are started are     *)
(* those the kernel counts with, and a call to all of them returns when all *)
(* have begun it (irq.c 456-608; zero_IRQ.c 172-216; smp.c 122-190;         *)
(* smp_activate.c 100-295).                                                 *)
(***************************************************************************)
MachineRight == EnabledLinesReachCpu /\ CrossCallComplete /\ OnlineExact
=============================================================================

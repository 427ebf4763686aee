------------------------------ MODULE SleepIO ------------------------------
(***************************************************************************)
(* The sleep lock of a buffer or an inode, with names of its own, to stand *)
(* beside other components.                                                *)
(***************************************************************************)
EXTENDS Integers, FiniteSets

CONSTANTS Sleeper, NoSleeper

VARIABLES slock, slocked, pid, sleeppc, scan

sleepVars == <<slock, slocked, pid, sleeppc, scan>>

S == INSTANCE Sleeplock WITH
  Proc <- Sleeper, NoProc <- NoSleeper, lk <- slock, locked <- slocked, pc <- sleeppc

ASSUME SleepAssumption == S!SleepConstants

(* Who sleeps for a sleep lock will be woken up.                           *)
NoForgottenWaiter == S!NoForgottenWaiter

(* A sleep lock is the mutex of module Mutex.                              *)
IsMutex == S!IsMutex
=============================================================================

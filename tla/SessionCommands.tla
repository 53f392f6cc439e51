-------------------------- MODULE SessionCommands --------------------------
(* What the domains of one CDP session share: each command has a goroutine *)
(* of its own.                                                             *)
EXTENDS Integers, Sequences, FiniteSets

CONSTANTS
    Cmds,   \* goroutines, each serving one command
    None    \* nothing: nil in Go, undefined in JavaScript

=============================================================================

----------------------------- MODULE SagaProgram ------------------------------
(***************************************************************************)
(* A program that puts a component together and, if that is a saga, serves *)
(* calls with it.  The kinds of pages the saga handles are the types its   *)
(* handlers map has when RunOOSagaServer is called: those that SagaBase    *)
(* takes as the constant Handled.                                          *)
(*                                                                         *)
(* SagaBase.Handle takes a source book, OOSaga.Handle a source book and    *)
(* Destinations: a program serves a type of its own that embeds SagaBase   *)
(* and whose Handle calls the base's with the source.  The destinations    *)
(* go no further, so that wrapper is left out.                             *)
(***************************************************************************)
EXTENDS SagaBase, Registration

ASSUME ProgramAssumption == Type = Page

program == <<vars, registration>>

\* The saga that Handle runs on: its maps are complete.
Serves ==
  /\ phase = "ready" /\ kind = "SagaBase"
  /\ {t \in Page : HandlerOf(t) # {}} = Handled

ProgramInit == RegistrationInit /\ Init

ProgramNext ==
  \/ RegistrationNext /\ UNCHANGED vars
  \/ Serves /\ Next /\ UNCHANGED registration

ProgramSpec == ProgramInit /\ [][ProgramNext]_program
===============================================================================

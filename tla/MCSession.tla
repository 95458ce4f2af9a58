---------------------------- MODULE MCSession ----------------------------
(* Session instantiated for TLC. *)
EXTENDS Session, TLC

CONSTANTS eth, docker

\* A VM with a second interface, whose candidate has the same port.
MCInterfaces == <<eth, docker>>
=============================================================================

-------------------------- MODULE MCAgentIdentity ---------------------------
(***************************************************************************)
(* AgentIdentity with two roots, so that a first start can be cut off and  *)
(* made again, two enrollments of one agent, and two registrations.        *)
(***************************************************************************)
EXTENDS AgentIdentity
=============================================================================

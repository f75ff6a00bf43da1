---- MODULE MCRateLimiter ----
(***************************************************************************)
(* An instance of RateLimiter for TLC: four calls of one client, one of      *)
(* another, two requests per window of two ticks, and time for two windows. *)
(***************************************************************************)
EXTENDS RateLimiter

CONSTANTS q1, q2, q3, q4, q5, upload, question

MCClientOf == [q \in Calls |-> IF q = q5 THEN question ELSE upload]
====

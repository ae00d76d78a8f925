------------------------------- MODULE Clock -------------------------------
(***************************************************************************)
(* get_time() (src/src/utils.c:95) and the three waits that use it: of     *)
(* mds_file_read, of mds_sub_recv and of open_file.  On Windows            *)
(* tv_sec * 1000000 + tv_usec is a 32-bit number: the microseconds wrap,   *)
(* and a negative result is extended to 64 bits.                           *)
(***************************************************************************)
EXTENDS Integers

CONSTANTS
  Long,         (* the values of a long (the code: 2^32)                   *)
  UInt64,       (* the values of a uint64_t (the code: 2^64)               *)
  Tick          (* every value of the clock is a multiple of it (the code: *)
                (* 8, since they are multiples of 1000 microseconds)       *)

ASSUME ClockAssumption ==
  /\ Tick \in Nat \ {0, 1} /\ Long \in Nat \ {0} /\ UInt64 \in Nat
  /\ Long % (2 * Tick) = 0 /\ UInt64 % Long = 0 /\ UInt64 > 4 * Long

(* get_time() at time t. *)
Now(t) == IF t % Long < Long \div 2 THEN t % Long ELSE UInt64 - Long + (t % Long)

(* Variant of Elapsed: a clock that went back has not moved. *)
ElapsedForward(start, t) ==
  IF Now(t) < Now(start) THEN 0 ELSE Now(t) - Now(start)

(* get_time() - start. *)
Elapsed(start, t) == (Now(t) - Now(start)) % UInt64

(* Variant of RecvExpires: the timeout as the int it is given as. *)
ExpiresSigned(start, t, timeout) == Elapsed(start, t) >= timeout

(* mds_file_read and mds_sub_recv: ETIMEDOUT is returned at time t when    *)
(* the call came at time start; a negative timeout is a huge one.  The     *)
(* timeout is compared with microseconds as it is given.                   *)
RecvExpires(start, t, timeout) == Elapsed(start, t) >= timeout % UInt64

(* open_file: `start + to'. *)
Deadline(start, to) == (Now(start) + to) % UInt64

OpenExpires(start, t, timeout) ==
  LET to == IF timeout < 0 THEN UInt64 \div 2 - 1 ELSE timeout IN
  Now(t) >= Deadline(start, to)
=============================================================================

--------------------------- MODULE MCAuthSessions ---------------------------
(* Instances of AuthSessions for TLC. *)
EXTENDS AuthSessions, TLC

CONSTANTS legacy, child, device, admin, student, r1, r2

(* A legacy token, a session that another account opens from its family, and *)
(* a login of the first account on another device.                           *)
OpenedFrom == (legacy :> NoFamily) @@ (child :> legacy) @@ (device :> NoFamily)
AccountOf == (legacy :> admin) @@ (child :> student) @@ (device :> admin)

Perms == Permutations(Req)
=============================================================================

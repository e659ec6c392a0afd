------------------------------- MODULE Values -------------------------------
(***************************************************************************)
(* What the instructions promise: they compute with the values that module *)
(* Meanings has, and a variable in memory is such a value itself.          *)
(*                                                                         *)
(* An instruction fails exactly when the engine does not support it or its *)
(* pointer is null.  The meaning of a division by 0, of a shift past the   *)
(* width, of an index that is negative in fewer bits than a pointer, of an *)
(* access that no element of the variable fits, and of a saturating        *)
(* subtraction of the least number is left open.                           *)
(***************************************************************************)
EXTENDS Meanings

CONSTANTS Instrs,   \* the instructions, as Understood has them
          Fields,   \* the elements of the variable in memory,
          ObjBytes, \* the bytes it occupies,
          NUM_BYTES \* and how many bytes there are

VARIABLES locals,  \* the values of the local variables
          object,  \* the value of the variable in memory
          beyond,  \* the memory around it
          time,    \* how many instructions have been executed
          ran,     \* the last one
          over     \* the path has ended with an error

vars == <<locals, object, beyond, time, ran, over>>

ValueOf(arg) == IF "name" \in DOMAIN arg THEN locals[arg.name] ELSE arg.val

\* An integer or a vector as the sequence of its elements.
Each(ty, v) == IF IsVector(ty) THEN v ELSE <<v>>

\* The numbers that the indices of a gep stand for.
IndexOpen(arg) == Size(arg.ty) < POINTER_SIZE_BITS /\ ValueOf(arg) >= 2^(Size(arg.ty) - 1)
IndexOf(arg)   == WithSign(Size(arg.ty), ValueOf(arg))

\* r is what the instruction i computes from the values v.
Computes(i, v, r) ==
    LET w  == i.w
        ty == i.args[1].ty
        a  == Each(ty, v[1])
        b  == Each(ty, v[2])
        rs == Each(i.ty, r)
    IN  CASE i.op = "binop" -> \A k \in DOMAIN a : Open(i.fn, w, b[k]) \/ rs[k] = Result(i.fn, w, a[k], b[k])
          [] i.op = "icmp" -> \A k \in DOMAIN a : rs[k] = Truth(Holds(i.fn, w, a[k], b[k]))
          [] i.op = "convert" ->
               \A k \in DOMAIN a : rs[k] = ResizedTo(i.fn, w, Width(i.ty), a[k])
          [] i.op = "cast" -> Encode(i.ty, r) = Encode(ty, v[1])
          [] i.op = "select" ->
               IF IsVector(ty) THEN r = [k \in DOMAIN a |-> IF a[k] = 1 THEN v[2][k] ELSE v[3][k]]
               ELSE r = IF v[1] = 1 THEN v[2] ELSE v[3]
          [] i.op = "extractelement" -> r = v[1][v[2] + 1]
          [] i.op = "insertelement" -> r = [v[1] EXCEPT ![v[3] + 1] = v[2]]
          [] i.op = "shufflevector" -> r = [k \in DOMAIN i.mask |-> (v[1] \o v[2])[i.mask[k] + 1]]
          [] i.op = "extractvalue" -> r = At(v[1], i.path)
          [] i.op = "insertvalue" -> r = Put(v[1], i.path, v[2])
          [] i.op = "gep" ->
               \/ \E k \in DOMAIN i.indices : IndexOpen(i.indices[k])
               \/ \A p \in Reached(Fields, ty.el, v[1], [k \in DOMAIN i.indices |-> IndexOf(i.indices[k])]) :
                     r = Fields[p].addr
          [] i.op = "load" -> \A p \in Found(Fields, i.ty, v[1]) : r = At(object, p)
          [] i.op = "overflow" ->
               LET n == Exact(i.fn, w, v[1], v[2])
               IN  r = <<n % 2^w, Truth(n < Least(i.fn, w) \/ n > Greatest(i.fn, w))>>
          [] i.op = "saturating" ->
               LET n == Exact(i.fn, w, v[1], v[2])
               IN  (i.fn = "ssub" /\ v[2] = 2^(w - 1)) \/ r = Clamp(Least(i.fn, w), Greatest(i.fn, w), n) % 2^w
          [] i.op = "bswap" ->
               LET bytes == w \div BITS_IN_BYTE
                   Byte(n, k) == (n \div 2^(k * BITS_IN_BYTE)) % 2^BITS_IN_BYTE
               IN  \A k \in 0..(bytes - 1) : Byte(r, k) = Byte(v[1], bytes - 1 - k)
          [] i.op = "objectsize" -> r = IF v[2] = 1 THEN 0 ELSE 2^Size(i.ty) - 1

\* The memory after v, of type ty, has been stored at addr.
Stored(ty, addr, v) ==
    LET bytes == {(addr + k) % NUM_BYTES : k \in 0..((Size(ty) - 1) \div BITS_IN_BYTE)}
    IN  IF Found(Fields, ty, addr) # {}
        THEN object' = Put(object, CHOOSE p \in Found(Fields, ty, addr) : TRUE, v) /\ UNCHANGED beyond
        ELSE bytes \cap ObjBytes = {} => UNCHANGED object

\* The instruction i is not supported, or its pointer is null.
Fails(i, v) ==
    \/ ~i.supported
    \/ i.op \in {"load", "cmpxchg"} /\ v[1] = 0
    \/ i.op = "store" /\ v[2] = 0

Execute(i, v, r) ==
    IF Fails(i, v) THEN over' /\ UNCHANGED <<locals, object, beyond>>
    ELSE /\ ~over'
         /\ CASE i.op = "store" -> Stored(i.args[1].ty, v[2], v[1]) /\ UNCHANGED locals
              [] i.op = "cmpxchg" ->
                   /\ locals' = [locals EXCEPT ![i.dest] = r]
                   /\ \A old \in {At(object, p) : p \in Found(Fields, i.args[2].ty, v[1])} :
                         /\ r = <<old, Truth(old = v[2])>>
                         /\ Stored(i.args[2].ty, v[1], IF old = v[2] THEN v[3] ELSE old)
              [] OTHER ->
                   /\ locals' = [locals EXCEPT ![i.dest] = r]
                   /\ Computes(i, v, r)
                   /\ UNCHANGED <<object, beyond>>

Next ==
    /\ ~over
    /\ time' = time + 1
    /\ \E i \in Instrs \cap {ran'} :
           \E v \in {[k \in DOMAIN i.args |-> ValueOf(i.args[k])]}, r \in {locals'[i.dest]} : Execute(i, v, r)

Spec == ~over /\ [][Next]_vars
=============================================================================

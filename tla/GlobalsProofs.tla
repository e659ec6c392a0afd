---------------------------- MODULE GlobalsProofs ----------------------------
(***************************************************************************)
(* Globals on the paths of a program, for every project: which call a      *)
(* pointer leads to, what the initializers leave in memory, and that no    *)
(* store is lost.  The invariant LInv of what names and addresses mean     *)
(* holds on every path, and GInv says what a path has made of them.        *)
(***************************************************************************)
EXTENDS Globals, TLAPS
-----------------------------------------------------------------------------
(* What names and addresses mean, for every project: any number of modules,  *)
(* definitions and hooks, in any order, with any linkage.                    *)

\* The definitions that the loops of State::new have reached.
Reached == {a \in DOMAIN defs : a < next_addr}

\* The shape of the state.
LinkTypes ==
    /\ project \in Projects
    /\ next_addr \in Nat \ {0}
    /\ DOMAIN ga = {"allocated_globals", "module_private_allocated_globals", "addr_to_function",
                    "module_private_addr_to_function", "allocated_hooks"}

\* A module's private names are those of its private definitions.
PrivateNames ==
    /\ \A a \in Reached : defs[a].linkage = "private" =>
          /\ <<defs[a].module, defs[a].name>> \in DOMAIN ga.module_private_allocated_globals
          /\ ga.module_private_allocated_globals[<<defs[a].module, defs[a].name>>] = a
    /\ \A k \in DOMAIN ga.module_private_allocated_globals :
          \E a \in Reached : defs[a].linkage = "private" /\ k = <<defs[a].module, defs[a].name>>

\* A public name stands for a definition of that name; the strong one if there
\* is one, and never for nothing if there is a weak one.
PublicNames ==
    /\ \A n \in DOMAIN ga.allocated_globals :
          LET a == ga.allocated_globals[n].addr
          IN  /\ a \in Reached
              /\ defs[a].name = n
              /\ defs[a].linkage = IF ga.allocated_globals[n].strong THEN "external" ELSE "weak"
    /\ \A a \in Reached : defs[a].linkage = "external" =>
          /\ defs[a].name \in DOMAIN ga.allocated_globals
          /\ ga.allocated_globals[defs[a].name].addr = a
    /\ \A a \in Reached : defs[a].linkage = "weak" => defs[a].name \in DOMAIN ga.allocated_globals

\* The way back, from an address to the function or the hook at it.
Addresses ==
    /\ \A n \in DOMAIN ga.allocated_globals :
          LET a == ga.allocated_globals[n].addr
          IN  defs[a].kind = "fn" =>
                a \in DOMAIN ga.addr_to_function /\ ga.addr_to_function[a] = LLVMFunction(n)
    /\ \A a \in Reached : defs[a].linkage = "private" /\ defs[a].kind = "fn" =>
          /\ <<defs[a].module, a>> \in DOMAIN ga.module_private_addr_to_function
          /\ ga.module_private_addr_to_function[<<defs[a].module, a>>] = LLVMFunction(defs[a].name)
    /\ \A a \in DOMAIN ga.addr_to_function :
          /\ a \in Nat /\ a < next_addr
          /\ a \in DOMAIN defs => defs[a].linkage # "private" /\ ga.addr_to_function[a] = LLVMFunction(defs[a].name)
    /\ \A k \in DOMAIN ga.module_private_addr_to_function :
          \E a \in Reached :
              /\ defs[a].linkage = "private"
              /\ k = <<defs[a].module, a>>
              /\ ga.module_private_addr_to_function[k] = LLVMFunction(defs[a].name)
    /\ \A h \in DOMAIN ga.allocated_hooks :
          /\ ga.allocated_hooks[h] \in DOMAIN ga.addr_to_function
          /\ ga.addr_to_function[ga.allocated_hooks[h]] = FunctionHook(h)
          /\ ga.allocated_hooks[h] \in Nat
          /\ ga.allocated_hooks[h] > Len(defs)

LInv == LinkTypes /\ (~panicked => PrivateNames /\ PublicNames /\ Addresses)
-----------------------------------------------------------------------------
\* LInv holds when State::new starts.
LEMMA LinkInitially == LinkInit => LInv
<1> SUFFICES ASSUME LinkInit PROVE LInv
    BY Zenon
<1>1. DOMAIN ga.allocated_globals = {} /\ DOMAIN ga.module_private_allocated_globals = {}
      /\ DOMAIN ga.addr_to_function = {} /\ DOMAIN ga.allocated_hooks = {}
      /\ DOMAIN ga.module_private_addr_to_function = {}
    BY SMTT(30) DEF LinkInit, NewAllocations
<1>2. Reached = {}
    BY ProjectsAssumption, SMTT(30) DEF LinkInit, Reached, defs
<1>3. LinkTypes
    BY SMTT(30) DEF LinkInit, LinkTypes, NewAllocations
<1> QED
    BY <1>1, <1>2, <1>3, Zenon DEF LInv, PrivateNames, PublicNames, Addresses

\* Every step preserves LInv.
LEMMA LinkStep == LInv /\ [LinkNext]_env => LInv'
<1> SUFFICES ASSUME LInv, [LinkNext]_env PROVE LInv'
    BY Zenon
<1> USE DEF LInv
<1>1. CASE AllocateDefinition
  <2> DEFINE d == defs[next_addr]
             pub == ga.allocated_globals
             priv == ga.module_private_allocated_globals
             atf == ga.addr_to_function
             patf == ga.module_private_addr_to_function
  <2>1. next_addr \in DOMAIN defs /\ DOMAIN defs = 1..Len(defs) /\ Len(defs) \in Nat
        /\ d.kind \in {"var", "fn"} /\ d.linkage \in {"private", "external", "weak", "appending", "other"}
      BY <1>1, ProjectsAssumption, SMTT(30) DEF AllocateDefinition, LinkTypes, defs
  <2>2. defs' = defs /\ project' = project /\ next_addr' = next_addr + 1 /\ ~panicked
      BY <1>1, Zenon DEF AllocateDefinition, defs
  <2>3. Reached' = Reached \cup {next_addr} /\ next_addr \notin Reached
      BY <2>1, <2>2, SMTT(30) DEF Reached, LinkTypes
  <2>4. PrivateNames /\ PublicNames /\ Addresses /\ LinkTypes
      BY <2>2, Zenon
  <2>5. CASE panicked'
    <3>1. ga' = ga
        BY <1>1, <2>5, Zenon DEF AllocateDefinition
    <3> QED
        BY <2>2, <2>4, <2>5, <3>1, SMTT(30) DEF LinkTypes
  <2>6. CASE ~panicked' /\ AllocationOf(ga, d) = "ModulePrivate"
    <3>1. d.linkage = "private" /\ <<d.module, d.name>> \notin DOMAIN priv
        BY <2>1, <2>6, Zenon DEF AllocationOf
    <3>a. ga' = [ga EXCEPT !.module_private_allocated_globals = Insert(priv, <<d.module, d.name>>, next_addr),
                           !.module_private_addr_to_function =
                               IF d.kind = "var" THEN patf
                               ELSE Insert(patf, <<d.module, next_addr>>, LLVMFunction(d.name))]
        BY <1>1, <2>1, <2>4, <2>6, Zenon DEF AllocateDefinition, AllocateFunction, AllocateGlobal, LinkTypes
    <3>2. /\ LinkTypes'
          /\ ga'.module_private_allocated_globals = Insert(priv, <<d.module, d.name>>, next_addr)
          /\ ga'.module_private_addr_to_function =
                 IF d.kind = "var" THEN patf
                 ELSE Insert(patf, <<d.module, next_addr>>, LLVMFunction(d.name))
          /\ ga'.allocated_globals = pub /\ ga'.addr_to_function = atf
          /\ ga'.allocated_hooks = ga.allocated_hooks
        BY <2>2, <2>4, <3>a, SMTT(30) DEF LinkTypes
    <3>3. PrivateNames'
      <4>1. /\ DOMAIN ga'.module_private_allocated_globals = DOMAIN priv \cup {<<d.module, d.name>>}
            /\ ga'.module_private_allocated_globals[<<d.module, d.name>>] = next_addr
            /\ \A k \in DOMAIN priv : ga'.module_private_allocated_globals[k] = priv[k]
          BY <3>1, <3>2, Zenon DEF Insert
      <4>2. ASSUME NEW a \in Reached', defs[a].linkage = "private"
            PROVE  /\ <<defs[a].module, defs[a].name>> \in DOMAIN ga'.module_private_allocated_globals
                   /\ ga'.module_private_allocated_globals[<<defs[a].module, defs[a].name>>] = a
          BY <2>3, <2>4, <4>1, <4>2, Zenon DEF PrivateNames
      <4>3. ASSUME NEW k \in DOMAIN ga'.module_private_allocated_globals
            PROVE  \E a \in Reached' : defs[a].linkage = "private" /\ k = <<defs[a].module, defs[a].name>>
          BY <2>3, <2>4, <3>1, <4>1, SMTT(30) DEF PrivateNames
      <4> QED
          BY <2>2, <4>2, <4>3, Zenon DEF PrivateNames
    <3>4. PublicNames'
        BY <2>2, <2>3, <2>4, <3>1, <3>2, SMTT(30) DEF PublicNames
    <3>5. Addresses'
      <4>1. /\ d.kind = "fn" => /\ <<d.module, next_addr>> \in DOMAIN ga'.module_private_addr_to_function
                                /\ ga'.module_private_addr_to_function[<<d.module, next_addr>>] = LLVMFunction(d.name)
            /\ \A k \in DOMAIN patf : k # <<d.module, next_addr>> =>
                   /\ k \in DOMAIN ga'.module_private_addr_to_function
                   /\ ga'.module_private_addr_to_function[k] = patf[k]
          BY <2>1, <3>2, Zenon DEF Insert
      <4>2. ASSUME NEW a \in Reached', defs[a].linkage = "private", defs[a].kind = "fn"
            PROVE  /\ <<defs[a].module, a>> \in DOMAIN ga'.module_private_addr_to_function
                   /\ ga'.module_private_addr_to_function[<<defs[a].module, a>>] = LLVMFunction(defs[a].name)
          BY <2>3, <2>4, <4>1, <4>2, Zenon DEF Addresses
      <4>3. \A a \in DOMAIN atf : a \in Nat /\ a < next_addr'
          BY <2>2, <2>4, SMTT(30) DEF Addresses, LinkTypes
      <4>4. ASSUME NEW k \in DOMAIN ga'.module_private_addr_to_function
            PROVE  \E a \in Reached' :
                       /\ defs[a].linkage = "private"
                       /\ k = <<defs[a].module, a>>
                       /\ ga'.module_private_addr_to_function[k] = LLVMFunction(defs[a].name)
        <5>1. CASE k \in DOMAIN patf
          <6>1. PICK a \in Reached : /\ defs[a].linkage = "private"
                                     /\ k = <<defs[a].module, a>>
                                     /\ patf[k] = LLVMFunction(defs[a].name)
              BY <2>4, <5>1, Zenon DEF Addresses
          <6>2. a # next_addr
              BY <2>3, Zenon
          <6>3. k # <<d.module, next_addr>>
              BY <6>1, <6>2, Zenon
          <6> QED
              BY <2>3, <4>1, <5>1, <6>1, <6>3, Zenon
        <5>2. CASE k \notin DOMAIN patf
          <6>1. k = <<d.module, next_addr>> /\ d.kind = "fn"
              BY <2>1, <3>2, <4>4, <5>2, SMTT(30) DEF Insert
          <6> QED
              BY <2>3, <3>1, <4>1, <6>1, Zenon
        <5> QED
            BY <5>1, <5>2, Zenon
      <4> QED
          BY <2>2, <2>4, <3>2, <4>2, <4>3, <4>4, SMTT(30) DEF Addresses
    <3> QED
        BY <3>2, <3>3, <3>4, <3>5, Zenon
  <2>7. CASE ~panicked' /\ AllocationOf(ga, d) = "Public"
    <3>1. /\ d.linkage \in {"external", "weak"}
          /\ d.linkage = "weak" => d.name \notin DOMAIN pub
          /\ d.linkage = "external" => d.name \notin DOMAIN pub \/ ~pub[d.name].strong
        BY <2>1, <2>7, Zenon DEF AllocationOf
    <3>a. ga' = [ga EXCEPT !.allocated_globals =
                               Insert(pub, d.name, [strong |-> d.linkage = "external", addr |-> next_addr]),
                           !.addr_to_function =
                               IF d.kind = "var" THEN atf ELSE Insert(atf, next_addr, LLVMFunction(d.name))]
        BY <1>1, <2>1, <2>4, <2>7, Zenon DEF AllocateDefinition, AllocateFunction, AllocateGlobal, LinkTypes
    <3>2. /\ LinkTypes'
          /\ ga'.allocated_globals = Insert(pub, d.name, [strong |-> d.linkage = "external", addr |-> next_addr])
          /\ ga'.addr_to_function =
                 IF d.kind = "var" THEN atf ELSE Insert(atf, next_addr, LLVMFunction(d.name))
          /\ ga'.module_private_allocated_globals = priv
          /\ ga'.module_private_addr_to_function = patf
          /\ ga'.allocated_hooks = ga.allocated_hooks
        BY <2>2, <2>4, <3>a, SMTT(30) DEF LinkTypes
    <3>3. PrivateNames'
        BY <2>2, <2>3, <2>4, <3>1, <3>2, SMTT(30) DEF PrivateNames
    <3>b. /\ DOMAIN ga'.allocated_globals = DOMAIN pub \cup {d.name}
          /\ ga'.allocated_globals[d.name] = [strong |-> d.linkage = "external", addr |-> next_addr]
          /\ \A n \in DOMAIN pub : n # d.name => ga'.allocated_globals[n] = pub[n]
        BY <3>2, Zenon DEF Insert
    <3>4. PublicNames'
      <4>1. ASSUME NEW n \in DOMAIN ga'.allocated_globals
            PROVE  LET a == ga'.allocated_globals[n].addr
                   IN  /\ a \in Reached'
                       /\ defs[a].name = n
                       /\ defs[a].linkage = IF ga'.allocated_globals[n].strong THEN "external" ELSE "weak"
        <5>1. CASE n = d.name
          <6>1. /\ ga'.allocated_globals[n].addr = next_addr
                /\ ga'.allocated_globals[n].strong = (d.linkage = "external")
              BY <3>b, <5>1, SMTT(30)
          <6> QED
              BY <2>3, <3>1, <5>1, <6>1, Zenon
        <5>2. CASE n # d.name
          <6>1. n \in DOMAIN pub /\ ga'.allocated_globals[n] = pub[n]
              BY <3>b, <5>2, Zenon
          <6> QED
              BY <2>3, <2>4, <6>1, SMTT(30) DEF PublicNames
        <5> QED
            BY <5>1, <5>2, Zenon
      <4>2. ASSUME NEW a \in Reached', defs[a].linkage = "external"
            PROVE  /\ defs[a].name \in DOMAIN ga'.allocated_globals
                   /\ ga'.allocated_globals[defs[a].name].addr = a
        <5>1. CASE a = next_addr
            BY <3>b, <5>1, SMTT(30)
        <5>2. CASE a \in Reached
          <6>1. defs[a].name \in DOMAIN pub /\ pub[defs[a].name].addr = a /\ pub[defs[a].name].strong
              BY <2>4, <4>2, <5>2, Zenon DEF PublicNames
          <6>2. defs[a].name # d.name
              BY <3>1, <6>1, Zenon
          <6> QED
              BY <3>b, <6>1, <6>2, Zenon
        <5> QED
            BY <2>3, <5>1, <5>2, Zenon
      <4>3. ASSUME NEW a \in Reached', defs[a].linkage = "weak"
            PROVE  defs[a].name \in DOMAIN ga'.allocated_globals
          BY <2>3, <2>4, <3>b, <4>3, Zenon DEF PublicNames
      <4> QED
          BY <2>2, <4>1, <4>2, <4>3, Zenon DEF PublicNames
    <3>5. Addresses'
      <4>1. next_addr \notin DOMAIN atf
          BY <2>4, SMTT(30) DEF Addresses, LinkTypes
      <4>2. /\ d.kind = "fn" => /\ next_addr \in DOMAIN ga'.addr_to_function
                                /\ ga'.addr_to_function[next_addr] = LLVMFunction(d.name)
            /\ \A a \in DOMAIN atf : a \in DOMAIN ga'.addr_to_function /\ ga'.addr_to_function[a] = atf[a]
            /\ \A a \in DOMAIN ga'.addr_to_function : a \in DOMAIN atf \/ a = next_addr
          BY <2>1, <3>2, <4>1, SMTT(30) DEF Insert
      <4>3. ASSUME NEW n \in DOMAIN ga'.allocated_globals, defs[ga'.allocated_globals[n].addr].kind = "fn"
            PROVE  /\ ga'.allocated_globals[n].addr \in DOMAIN ga'.addr_to_function
                   /\ ga'.addr_to_function[ga'.allocated_globals[n].addr] = LLVMFunction(n)
          BY <2>4, <3>b, <4>2, <4>3, SMTT(30) DEF Addresses
      <4>4. ASSUME NEW a \in Reached', defs[a].linkage = "private", defs[a].kind = "fn"
            PROVE  /\ <<defs[a].module, a>> \in DOMAIN patf
                   /\ patf[<<defs[a].module, a>>] = LLVMFunction(defs[a].name)
          BY <2>3, <2>4, <3>1, <4>4, Zenon DEF Addresses
      <4>5. ASSUME NEW a \in DOMAIN ga'.addr_to_function
            PROVE  /\ a \in Nat /\ a < next_addr'
                   /\ a \in DOMAIN defs =>
                          defs[a].linkage # "private" /\ ga'.addr_to_function[a] = LLVMFunction(defs[a].name)
        <5>1. CASE a \in DOMAIN atf
            BY <2>2, <2>4, <4>2, <5>1, SMTT(30) DEF Addresses, LinkTypes
        <5>2. CASE a \notin DOMAIN atf
          <6>1. a = next_addr /\ d.kind = "fn"
              BY <2>1, <3>2, <4>2, <4>5, <5>2, Zenon
          <6> QED
              BY <2>1, <2>2, <2>4, <3>1, <4>2, <6>1, SMTT(30) DEF LinkTypes
        <5> QED
            BY <5>1, <5>2, Zenon
      <4>6. \A k \in DOMAIN patf :
                \E a \in Reached' :
                    defs[a].linkage = "private" /\ k = <<defs[a].module, a>> /\ patf[k] = LLVMFunction(defs[a].name)
          BY <2>3, <2>4, Zenon DEF Addresses
      <4>7. \A h \in DOMAIN ga.allocated_hooks :
                /\ ga.allocated_hooks[h] \in DOMAIN ga'.addr_to_function
                /\ ga'.addr_to_function[ga.allocated_hooks[h]] = FunctionHook(h)
                /\ ga.allocated_hooks[h] \in Nat
                /\ ga.allocated_hooks[h] > Len(defs)
          BY <2>4, <4>2, Zenon DEF Addresses
      <4>8. /\ ga'.module_private_addr_to_function = patf /\ ga'.allocated_hooks = ga.allocated_hooks
            /\ defs' = defs
          BY <2>2, <3>2, Zenon
      <4> QED
          BY <4>3, <4>4, <4>5, <4>6, <4>7, <4>8, SMTT(30) DEF Addresses
    <3> QED
        BY <3>2, <3>3, <3>4, <3>5, Zenon
  <2>8. CASE ~panicked' /\ AllocationOf(ga, d) = "NoAllocate"
    <3>1. d.linkage = "appending" \/ (d.linkage = "weak" /\ d.name \in DOMAIN pub)
        BY <2>1, <2>8, Zenon DEF AllocationOf
    <3>2. ga' = ga
        BY <1>1, <2>1, <2>8, Zenon DEF AllocateDefinition, AllocateFunction, AllocateGlobal
    <3>3. LinkTypes'
        BY <2>2, <2>4, <3>2, SMTT(30) DEF LinkTypes
    <3>4. PrivateNames'
        BY <2>2, <2>3, <2>4, <3>1, <3>2, SMTT(30) DEF PrivateNames
    <3>5. PublicNames'
        BY <2>2, <2>3, <2>4, <3>1, <3>2, Zenon DEF PublicNames
    <3>6. Addresses'
      <4>1. \A a \in DOMAIN atf : a \in Nat /\ a < next_addr'
          BY <2>2, <2>4, SMTT(30) DEF Addresses, LinkTypes
      <4> QED
          BY <2>2, <2>3, <2>4, <3>1, <3>2, <4>1, SMTT(30) DEF Addresses
    <3> QED
        BY <3>3, <3>4, <3>5, <3>6, Zenon
  <2> QED
      BY <1>1, <2>1, <2>5, <2>6, <2>7, <2>8, Zenon DEF AllocateDefinition, AllocationOf
<1>2. ASSUME NEW h \in AllHooks(fh), AllocateHook(h) PROVE LInv'
  <2>1. DOMAIN defs = 1..Len(defs) /\ Len(defs) \in Nat
      BY ProjectsAssumption, Zenon DEF LinkTypes, defs
  <2>2. defs' = defs /\ project' = project /\ ~panicked /\ ~panicked'
        /\ next_addr' = next_addr + 1 /\ next_addr > Len(defs)
      BY <1>2, Zenon DEF AllocateHook, defs
  <2>3. Reached' = Reached
      BY <2>1, <2>2, SMTT(30) DEF Reached, LinkTypes
  <2>a. ga' = [ga EXCEPT !.allocated_hooks = Insert(ga.allocated_hooks, h, next_addr),
                         !.addr_to_function = Insert(ga.addr_to_function, next_addr, FunctionHook(h))]
      BY <1>2, Zenon DEF AllocateHook, AllocateFunctionHook, LinkTypes
  <2>4. /\ LinkTypes'
        /\ ga'.allocated_hooks = Insert(ga.allocated_hooks, h, next_addr)
        /\ ga'.addr_to_function = Insert(ga.addr_to_function, next_addr, FunctionHook(h))
        /\ ga'.allocated_globals = ga.allocated_globals
        /\ ga'.module_private_allocated_globals = ga.module_private_allocated_globals
        /\ ga'.module_private_addr_to_function = ga.module_private_addr_to_function
      BY <2>2, <2>a, SMTT(30) DEF LinkTypes
  <2>5. PrivateNames' /\ PublicNames'
      BY <2>2, <2>3, <2>4, SMTT(30) DEF PrivateNames, PublicNames
  <2>6. Addresses'
    <3>1. next_addr \notin DOMAIN ga.addr_to_function
        BY <2>2, SMTT(30) DEF Addresses, LinkTypes
    <3>2. /\ DOMAIN ga'.addr_to_function = DOMAIN ga.addr_to_function \cup {next_addr}
          /\ ga'.addr_to_function[next_addr] = FunctionHook(h)
          /\ \A a \in DOMAIN ga.addr_to_function : ga'.addr_to_function[a] = ga.addr_to_function[a]
        BY <2>4, <3>1, Zenon DEF Insert
    <3>3. /\ DOMAIN ga'.allocated_hooks = DOMAIN ga.allocated_hooks \cup {h}
          /\ ga'.allocated_hooks[h] = next_addr
          /\ \A k \in DOMAIN ga.allocated_hooks : k # h => ga'.allocated_hooks[k] = ga.allocated_hooks[k]
        BY <2>4, Zenon DEF Insert
    <3>4. ASSUME NEW k \in DOMAIN ga'.allocated_hooks
          PROVE  /\ ga'.allocated_hooks[k] \in DOMAIN ga'.addr_to_function
                 /\ ga'.addr_to_function[ga'.allocated_hooks[k]] = FunctionHook(k)
                 /\ ga'.allocated_hooks[k] \in Nat
                 /\ ga'.allocated_hooks[k] > Len(defs)
        BY <2>2, <3>2, <3>3, SMTT(30) DEF Addresses, LinkTypes
    <3>5. ASSUME NEW a \in DOMAIN ga'.addr_to_function
          PROVE  /\ a \in Nat /\ a < next_addr'
                 /\ a \in DOMAIN defs =>
                        defs[a].linkage # "private" /\ ga'.addr_to_function[a] = LLVMFunction(defs[a].name)
        BY <2>1, <2>2, <3>2, SMTT(30) DEF Addresses, LinkTypes
    <3>6. ASSUME NEW n \in DOMAIN ga.allocated_globals, defs[ga.allocated_globals[n].addr].kind = "fn"
          PROVE  /\ ga.allocated_globals[n].addr \in DOMAIN ga'.addr_to_function
                 /\ ga'.addr_to_function[ga.allocated_globals[n].addr] = LLVMFunction(n)
        BY <2>2, <3>2, <3>6, Zenon DEF Addresses
    <3>7. \A a \in Reached' : defs[a].linkage = "private" /\ defs[a].kind = "fn" =>
              /\ <<defs[a].module, a>> \in DOMAIN ga.module_private_addr_to_function
              /\ ga.module_private_addr_to_function[<<defs[a].module, a>>] = LLVMFunction(defs[a].name)
        BY <2>2, <2>3, Zenon DEF Addresses
    <3>8. \A k \in DOMAIN ga.module_private_addr_to_function :
              \E a \in Reached' :
                  /\ defs[a].linkage = "private"
                  /\ k = <<defs[a].module, a>>
                  /\ ga.module_private_addr_to_function[k] = LLVMFunction(defs[a].name)
        BY <2>2, <2>3, Zenon DEF Addresses
    <3> QED
        BY <2>2, <2>4, <3>4, <3>5, <3>6, <3>7, <3>8, SMTT(30) DEF Addresses
  <2> QED
      BY <2>4, <2>5, <2>6, Zenon
<1>3. CASE HooksChange \/ CallPanics \/ UNCHANGED env
  <2>1. project' = project /\ ga' = ga /\ next_addr' = next_addr /\ (panicked' = panicked \/ panicked')
      BY <1>3, Zenon DEF HooksChange, ChangeHooks, CallPanics, env
  <2>2. defs' = defs /\ Reached' = Reached
      BY <2>1, Zenon DEF Reached, defs
  <2>3. LinkTypes'
      BY <2>1, Zenon DEF LinkTypes
  <2>4. PrivateNames => PrivateNames'
      BY <2>1, <2>2, SMTT(30) DEF PrivateNames
  <2>5. PublicNames => PublicNames'
      BY <2>1, <2>2, Zenon DEF PublicNames
  <2>6. Addresses => Addresses'
      BY <2>1, <2>2, Zenon DEF Addresses
  <2> QED
      BY <2>1, <2>3, <2>4, <2>5, <2>6, Zenon
<1> QED
    BY <1>1, <1>2, <1>3, Zenon DEF LinkNext

\* The maps of GlobalAllocations agree with the definitions and with each other.
THEOREM LinkInvariance == LinkSpec => []LInv
<1> QED
    BY LinkInitially, LinkStep, PTL DEF LinkSpec

\* A name stands for the private definition of the module, else for the strong
\* one, else for a weak one, in every project: allocate_global makes it so
\* whatever the order in which State::new meets the definitions.
THEOREM StrongAlwaysPrevails == LinkSpec => []StrongPrevails
<1>1. LInv => StrongPrevails
  <2> SUFFICES ASSUME LInv, Allocated, NEW m \in Modules, NEW n \in Names
               PROVE LET a       == GetGlobalAllocation(ga, n, m)
                         private == {e \in Definitions(n, "private") : defs[e].module = m}
                         strong  == Definitions(n, "external")
                     IN  IF private # {} THEN private = {a}
                         ELSE IF strong # {} THEN strong = {a}
                         ELSE a \in Definitions(n, "weak") \/ (a = NoAddr /\ Definitions(n, "weak") = {})
      BY Zenon DEF StrongPrevails
  <2> DEFINE a       == GetGlobalAllocation(ga, n, m)
             private == {e \in Definitions(n, "private") : defs[e].module = m}
             strong  == Definitions(n, "external")
  <2>1. PrivateNames /\ PublicNames /\ Reached = DOMAIN defs
      BY ProjectsAssumption, SMTT(30) DEF LInv, LinkTypes, Allocated, Reached, defs
  <2>2. CASE private # {}
    <3>1. \A e \in private : e = a
        BY <2>1, Zenon DEF Definitions, PrivateNames, GetGlobalAllocation
    <3> QED
        BY <2>2, <3>1, Zenon
  <2>3. CASE private = {}
    <3>1. <<m, n>> \notin DOMAIN ga.module_private_allocated_globals
        BY <2>1, <2>3, Zenon DEF Definitions, PrivateNames
    <3>2. a = IF n \in DOMAIN ga.allocated_globals THEN ga.allocated_globals[n].addr ELSE NoAddr
        BY <3>1, Zenon DEF GetGlobalAllocation
    <3>3. \A e \in strong : e = a
        BY <2>1, <3>2, SMTT(30) DEF Definitions, PublicNames
    <3>4. strong = {} => a \in Definitions(n, "weak") \/ (a = NoAddr /\ Definitions(n, "weak") = {})
        BY <2>1, <3>2, SMTT(30) DEF Definitions, PublicNames
    <3> QED
        BY <2>3, <3>3, <3>4, Zenon
  <2> QED
      BY <2>2, <2>3, Zenon
<1> QED
    BY <1>1, LinkInvariance, PTL

\* A call through the pointer that a module makes for a name is a call of that
\* name, and the address of a hook leads to that hook, in every project and
\* however the hooks change: get_func_for_address undoes what
\* allocate_function and allocate_function_hook do.
THEOREM PointersAlwaysAgree == LinkSpec => []PointersAgreeWithNames
<1>1. LInv => PointersAgreeWithNames
  <2> SUFFICES ASSUME LInv, Allocated PROVE PointersAgreeWithNames
      BY Zenon DEF PointersAgreeWithNames
  <2>1. PrivateNames /\ PublicNames /\ Addresses /\ Reached = DOMAIN defs
      BY ProjectsAssumption, SMTT(30) DEF LInv, LinkTypes, Allocated, Reached, defs
  <2>2. \A a \in DOMAIN defs \ Vars : defs[a].kind = "fn"
      BY ProjectsAssumption, Zenon DEF LInv, LinkTypes, Vars, defs
  <2>3. ASSUME NEW m \in Modules, NEW n \in Names, GetGlobalAllocation(ga, n, m) \in DOMAIN defs \ Vars
        PROVE ResolvePointer(GetGlobalAllocation(ga, n, m), m) = ResolveName(n, m)
    <3> DEFINE a == GetGlobalAllocation(ga, n, m)
    <3>1. ASSUME <<m, n>> \in DOMAIN ga.module_private_allocated_globals
          PROVE GetFuncForAddress(ga, a, m) = LLVMFunction(n)
      <4>1. a \in Reached /\ defs[a].linkage = "private" /\ defs[a].module = m /\ defs[a].name = n
          BY <2>1, <3>1, SMTT(30) DEF PrivateNames, GetGlobalAllocation
      <4> QED
          BY <2>1, <2>2, <2>3, <4>1, Zenon DEF Addresses, GetFuncForAddress
    <3>2. ASSUME <<m, n>> \notin DOMAIN ga.module_private_allocated_globals
          PROVE GetFuncForAddress(ga, a, m) = LLVMFunction(n)
      <4>1. n \in DOMAIN ga.allocated_globals /\ a = ga.allocated_globals[n].addr
          BY <2>3, <3>2, ProjectsAssumption, SMTT(30) DEF GetGlobalAllocation, LInv, LinkTypes, defs, NoAddr
      <4> QED
          BY <2>1, <2>2, <2>3, <4>1, Zenon DEF Addresses, GetFuncForAddress
    <3>3. GetFuncForAddress(ga, a, m) = LLVMFunction(n)
        BY <3>1, <3>2, Zenon
    <3> QED
        BY <3>3, SMTT(30) DEF ResolvePointer, LLVMFunction
  <2>4. ASSUME NEW h \in DOMAIN ga.allocated_hooks, NEW m \in Modules
        PROVE ResolvePointer(ga.allocated_hooks[h], m) = [hook |-> h, target |-> NoAddr]
    <3>1. GetFuncForAddress(ga, ga.allocated_hooks[h], m) = FunctionHook(h)
        BY <2>1, Zenon DEF Addresses, GetFuncForAddress
    <3> QED
        BY <3>1, SMTT(30) DEF ResolvePointer, FunctionHook
  <2> QED
      BY <2>3, <2>4, Zenon DEF PointersAgreeWithNames
<1> QED
    BY <1>1, LinkInvariance, PTL
-----------------------------------------------------------------------------
(* What a path makes of them.                                                *)

\* A pointer that code can have: nothing yet, the address of a hook, or that of
\* a definition which its name stands for in some module.
ValidPtr(a) ==
    \/ a = NoAddr
    \/ \E h \in DOMAIN ga.allocated_hooks : ga.allocated_hooks[h] = a
    \/ /\ a \in DOMAIN defs
       /\ \/ defs[a].linkage = "private"
          \/ defs[a].name \in DOMAIN ga.allocated_globals /\ ga.allocated_globals[defs[a].name].addr = a

\* Memory mm holds, in a global that was initialised and not stored to since,
\* what the initializer means in the module that referred to it first.
Contents(mm) ==
    \A a \in Vars : mm[a] \notin Stored \cup {Uninitialized} =>
        \E m \in Modules :
            /\ DOMAIN mm[a] = DOMAIN defs[a].init
            /\ \A k \in DOMAIN defs[a].init : mm[a][k] = Meaning(defs[a].init[k], m)

\* Memory mm holds what was stored, and the flag of such a global is set.
Kept(mm, st) == \A a \in Vars : st[a] # Nothing => mm[a] = st[a] /\ a \in initialized

\* The part of the state that a backtracking point saves.
PathOK(cm, cs, p, mm, st) ==
    /\ cm \in Modules
    /\ cs \in Seq(Modules)
    /\ ValidPtr(p)
    /\ mm = [a \in Vars |-> mm[a]]
    /\ st = [a \in Vars |-> st[a]]
    /\ Contents(mm)
    /\ Kept(mm, st)

PointOK(bp) == PathOK(bp.cur_module, bp.callstack, bp.ptr, bp.mem, bp.stored)

\* One activation of const_to_bv: the values are the meanings of the constants
\* in the current module.
ActivationOK(e) ==
    /\ Len(e.vals) <= Len(e.consts)
    /\ \A j \in 1..Len(e.vals) :
          /\ e.vals[j] = Meaning(e.consts[j], cur_module)
          /\ e.vals[j] \in Vars => e.vals[j] \in initialized
          /\ e.ok => e.vals[j] # NoAddr

\* The activation e is inside the activation o, for the next constant of that.
Inside(e, o) ==
    /\ Len(o.vals) < Len(o.consts)
    /\ e.of = Meaning(o.consts[Len(o.vals) + 1], cur_module)
    /\ e.of \in Vars \cap initialized
    /\ stored[e.of] = Nothing
    /\ e.consts = defs[e.of].init

Lists == {<<n>> : n \in Names} \cup {defs[a].init : a \in DOMAIN defs}

Activations == [of : Nat, consts : Lists, vals : Seq(Nat), ok : BOOLEAN]

Evaluation ==
    /\ evaluating \in Seq(Activations)
    /\ evaluating # <<>> => Created /\ ~failed /\ Len(evaluating[1].consts) = 1
    /\ \A k \in DOMAIN evaluating : ActivationOK(evaluating[k])
    /\ \A k \in DOMAIN evaluating : k > 1 => Inside(evaluating[k], evaluating[k - 1])
    /\ storing # Nothing =>
          /\ storing \in project.stores
          /\ evaluating # <<>>
          /\ Meaning(evaluating[1].consts[1], cur_module) \in Vars \cup {NoAddr}

\* Nothing has happened before State::new is over.
Untouched ==
    next_addr <= Len(defs) \/ Unallocated # {} =>
        /\ mem = [a \in Vars |-> Uninitialized]
        /\ evaluating = <<>>
        /\ backtrack_points = <<>>
        /\ ptr = NoAddr
        /\ called = NoCall

Path == PathOK(cur_module, callstack, ptr, mem, stored)

Points ==
    /\ Len(backtrack_points) \in Nat
    /\ DOMAIN backtrack_points = 1..Len(backtrack_points)
    /\ \A k \in DOMAIN backtrack_points : PointOK(backtrack_points[k])

GInv ==
    /\ Untouched
    /\ Path
    /\ Points
    /\ Evaluation
    /\ PointerCallsEnter
-----------------------------------------------------------------------------
\* The steps of a path are steps of Linking.
LEMMA GlobalsLink == panicked \in BOOLEAN /\ [Next]_vars => [LinkNext]_env
<1> SUFFICES ASSUME panicked \in BOOLEAN, [Next]_vars PROVE [LinkNext]_env
    BY Zenon
<1>1. CASE New \/ Configure
    BY <1>1, Zenon DEF New, Configure, LinkNext
<1>2. ASSUME NEW by, NEW r, Running, EnterCall(by, r) PROVE [LinkNext]_env
  <2>1. panicked = FALSE /\ UNCHANGED <<project, fh, ga, next_addr>> /\ panicked' \in BOOLEAN
      BY <1>2, SMTT(30) DEF EnterCall, Running, Created
  <2> QED
      BY <1>2, <2>1, Zenon DEF LinkNext, CallPanics, Running, env
<1>3. CASE \E n \in Names : CallName(n)
    BY <1>2, <1>3, Zenon DEF CallName
<1>4. CASE CallPointer
    BY <1>2, <1>4, Zenon DEF CallPointer, env
<1>5. ASSUME NEW n \in Names, NEW v, EvaluateOperand(n, v) PROVE UNCHANGED env
    BY <1>5, Zenon DEF EvaluateOperand, env
<1>6. ASSUME NEW n \in Names, GetPointerToHook(n) PROVE UNCHANGED env
    BY <1>6, Zenon DEF GetPointerToHook, env
<1>7. CASE EvaluateConstant \/ WriteInitializer \/ Execute \/ CallInlineAsm \/ Return \/ UNCHANGED vars
    BY <1>7, Zenon DEF EvaluateConstant, WriteInitializer, Execute, CallInlineAsm, Return, env, vars
<1>8. CASE SaveBacktrackingPoint \/ RevertToBacktrackingPoint \/ \E k \in 1..2 : LoadPointer(k)
    BY <1>8, Zenon DEF SaveBacktrackingPoint, RevertToBacktrackingPoint, LoadPointer, env
<1> QED
    BY <1>1, <1>3, <1>4, <1>5, <1>6, <1>7, <1>8, Zenon DEF Next

\* Whether a step panics is a truth value.
LEMMA PanickedBoolean == panicked \in BOOLEAN /\ [LinkNext]_env => panicked' \in BOOLEAN
<1> QED
    BY Zenon DEF LinkNext, AllocateDefinition, AllocateHook, HooksChange, ChangeHooks, CallPanics, env

\* A sequence of one activation.
LEMMA OneActivation ==
    ASSUME NEW S, NEW f \in S
    PROVE  <<f>> \in Seq(S) /\ DOMAIN <<f>> = 1..1 /\ <<f>>[1] = f /\ <<f>> # <<>>
<1>1. Len(<<f>>) = 1 /\ DOMAIN <<f>> = 1..1 /\ <<f>>[1] = f
    BY SMTT(30)
<1>2. <<f>> # <<>>
    BY <1>1, Zenon
<1>3. <<f>> \in Seq(S)
    BY SMTT(30)
<1> QED
    BY <1>1, <1>2, <1>3, Zenon

\* GInv holds at first.
LEMMA GlobalsInitially == Init => GInv
<1> SUFFICES ASSUME Init PROVE GInv
    BY SMTT(30)
<1> USE DEF Init
<1>1. Untouched
    BY Zenon DEF Untouched
<1>2. Path
    BY SMTT(30) DEF Path, PathOK, ValidPtr, Contents, Kept
<1>3. Evaluation /\ Points
  <2>1. <<>> \in Seq(Activations) /\ Len(<<>>) \in Nat /\ DOMAIN <<>> = {} /\ 1..Len(<<>>) = {}
      BY SMTT(30)
  <2>2. evaluating = <<>> /\ storing = Nothing /\ backtrack_points = <<>>
      BY Zenon
  <2> QED
      BY <2>1, <2>2, Zenon DEF Evaluation, Points
<1>4. PointerCallsEnter
    BY Zenon DEF PointerCallsEnter, NoCall
<1> QED
    BY <1>1, <1>2, <1>3, <1>4, Zenon DEF GInv

\* What depends on the project alone.
LEMMA ProjectKept ==
    ASSUME project' = project
    PROVE  defs' = defs /\ Vars' = Vars /\ Names' = Names /\ Activations' = Activations
<1>1. defs' = defs
    BY Zenon DEF defs
<1>2. Vars' = Vars /\ Names' = Names
    BY <1>1, Zenon DEF Vars, Names
<1>3. Lists' = Lists
    BY <1>1, <1>2, Zenon DEF Lists
<1> QED
    BY <1>1, <1>2, <1>3, Zenon DEF Activations

\* What a name stands for is a pointer that code can have.
LEMMA MeaningsValid ==
    ASSUME LInv, ~panicked, NEW n, NEW m
    PROVE  ValidPtr(GetGlobalAllocation(ga, n, m)) /\ GetGlobalAllocation(ga, n, m) \in Nat
<1> DEFINE a == GetGlobalAllocation(ga, n, m)
<1>1. PrivateNames /\ PublicNames /\ \A e \in Reached : e \in DOMAIN defs /\ e \in Nat
    BY ProjectsAssumption, SMTT(30) DEF LInv, LinkTypes, Reached, defs
<1>2. CASE <<m, n>> \in DOMAIN ga.module_private_allocated_globals
    BY <1>1, <1>2, SMTT(30) DEF PrivateNames, GetGlobalAllocation, ValidPtr
<1>3. CASE <<m, n>> \notin DOMAIN ga.module_private_allocated_globals /\ n \in DOMAIN ga.allocated_globals
    BY <1>1, <1>3, SMTT(30) DEF PublicNames, GetGlobalAllocation, ValidPtr
<1>4. CASE <<m, n>> \notin DOMAIN ga.module_private_allocated_globals /\ n \notin DOMAIN ga.allocated_globals
    BY <1>4, Zenon DEF GetGlobalAllocation, ValidPtr, NoAddr
<1> QED
    BY <1>2, <1>3, <1>4, Zenon

\* What was saved stays as it was, while flags may be set.
LEMMA PointKept ==
    ASSUME project' = project, ga' = ga, initialized \subseteq initialized', NEW k,
           backtrack_points'[k] = backtrack_points[k], PointOK(backtrack_points[k])
    PROVE  PointOK(backtrack_points[k])'
<1>1. defs' = defs /\ Vars' = Vars
    BY Zenon DEF defs, Vars
<1> DEFINE bp == backtrack_points[k]
<1>2. PathOK(bp.cur_module, bp.callstack, bp.ptr, bp.mem, bp.stored)
    BY Zenon DEF PointOK
<1>3. ValidPtr(bp.ptr)'
    BY <1>1, <1>2, Zenon DEF PathOK, ValidPtr
<1>4. Contents(bp.mem)'
    BY <1>1, <1>2, SMTT(30) DEF PathOK, Contents, Meaning
<1>5. Kept(bp.mem, bp.stored)'
    BY <1>1, <1>2, Zenon DEF PathOK, Kept
<1> QED
    BY <1>1, <1>2, <1>3, <1>4, <1>5, Zenon DEF PathOK, PointOK

LEMMA PointsKept ==
    ASSUME project' = project, ga' = ga, initialized \subseteq initialized',
           backtrack_points' = backtrack_points, Points
    PROVE  Points'
<1>1. ASSUME NEW k \in DOMAIN backtrack_points PROVE PointOK(backtrack_points[k])'
    BY PointKept, Zenon DEF Points
<1> QED
    BY <1>1, Zenon DEF Points

\* The same for the current path, when its memory does not change.
LEMMA PathKept ==
    ASSUME project' = project, ga' = ga, initialized \subseteq initialized', mem' = mem, stored' = stored,
           cur_module' \in Modules, callstack' \in Seq(Modules), ValidPtr(ptr'), Path
    PROVE  Path'
<1>1. defs' = defs /\ Vars' = Vars
    BY Zenon DEF defs, Vars
<1>2. ValidPtr(ptr)'
    BY <1>1, Zenon DEF ValidPtr
<1>3. Contents(mem)' /\ Kept(mem, stored)'
    BY <1>1, SMTT(30) DEF Path, PathOK, Contents, Kept, Meaning
<1> QED
    BY <1>1, <1>2, <1>3, Zenon DEF Path, PathOK

\* Between instructions nothing is being evaluated.
LEMMA Idle == evaluating' = <<>> /\ storing' = Nothing => Evaluation'
<1> QED
    BY SMTT(30) DEF Evaluation

\* Once State::new is over it stays so.
LEMMA StaysCreated ==
    ASSUME LInv, project' = project, ga' = ga, next_addr' = next_addr, next_addr > Len(defs), Unallocated = {}
    PROVE  Untouched'
<1>1. ~(next_addr <= Len(defs))
    BY ProjectsAssumption, SMTT(30) DEF LInv, LinkTypes, defs
<1> QED
    BY <1>1, Zenon DEF Untouched, Unallocated, defs

\* What can be found at an address.
LEMMA Callables ==
    /\ \A x : LLVMFunction(x).kind = "function" /\ LLVMFunction(x).name = x
    /\ \A x : FunctionHook(x).kind = "hook"
    /\ NoCallable.kind = "none"
<1> QED
    BY Zenon DEF LLVMFunction, FunctionHook, NoCallable

\* A call through a pointer that code can have enters the function there, or a
\* private function of the same name.
LEMMA PointerEnters ==
    ASSUME LInv, ~panicked, NEW a, ValidPtr(a), a # NoAddr, NEW m,
           ResolvePointer(a, m).target # NoAddr
    PROVE  LET t == ResolvePointer(a, m).target
           IN  \/ t = a
               \/ defs[t].linkage = "private" /\ defs[t].module = m /\ defs[t].name = defs[a].name
<1> DEFINE c == GetFuncForAddress(ga, a, m)
           t == ResolvePointer(a, m).target
<1>1. PrivateNames /\ PublicNames /\ Addresses /\ DOMAIN defs = 1..Len(defs) /\ Len(defs) \in Nat
    BY ProjectsAssumption, Zenon DEF LInv, LinkTypes, defs
<1>2. /\ c.kind = "function"
      /\ t = GetGlobalAllocation(ga, c.name, m)
  <2>1. c.kind \in {"function", "hook", "none"}
    <3>1. CASE a \in DOMAIN ga.addr_to_function
      <4>0. c = ga.addr_to_function[a]
          BY <3>1, Zenon DEF GetFuncForAddress
      <4>1. CASE a \in DOMAIN defs
        <5>1. c = LLVMFunction(defs[a].name)
            BY <1>1, <3>1, <4>0, <4>1, Zenon DEF Addresses
        <5> QED
            BY <5>1, Callables, Zenon
      <4>2. CASE a \notin DOMAIN defs
        <5>1. PICK h \in DOMAIN ga.allocated_hooks : ga.allocated_hooks[h] = a
            BY <4>2, Zenon DEF ValidPtr
        <5>2. c = FunctionHook(h)
            BY <1>1, <4>0, <5>1, Zenon DEF Addresses
        <5> QED
            BY <5>2, Callables, Zenon
      <4> QED
          BY <4>1, <4>2, Zenon
    <3>2. CASE a \notin DOMAIN ga.addr_to_function /\ <<m, a>> \in DOMAIN ga.module_private_addr_to_function
      <4>0. c = ga.module_private_addr_to_function[<<m, a>>]
          BY <3>2, Zenon DEF GetFuncForAddress
      <4>1. PICK e \in Reached : c = LLVMFunction(defs[e].name)
          BY <1>1, <3>2, <4>0, SMTT(30) DEF Addresses
      <4> QED
          BY <4>1, Callables, Zenon
    <3>3. CASE a \notin DOMAIN ga.addr_to_function /\ <<m, a>> \notin DOMAIN ga.module_private_addr_to_function
        BY <3>3, Callables, Zenon DEF GetFuncForAddress
    <3> QED
        BY <3>1, <3>2, <3>3, Zenon
  <2> QED
      BY <2>1, Zenon DEF ResolvePointer, ResolveName
<1>3. CASE a \in DOMAIN ga.addr_to_function
  <2>1. a \in DOMAIN defs
    <3> SUFFICES ASSUME a \notin DOMAIN defs PROVE FALSE
        BY Zenon
    <3>1. PICK h \in DOMAIN ga.allocated_hooks : ga.allocated_hooks[h] = a
        BY Zenon DEF ValidPtr
    <3>2. c = FunctionHook(h)
        BY <1>1, <1>3, <3>1, Zenon DEF Addresses, GetFuncForAddress
    <3> QED
        BY <1>2, <3>2, Callables, Zenon
  <2>a. c = LLVMFunction(defs[a].name) /\ defs[a].linkage # "private"
      BY <1>1, <1>3, <2>1, Zenon DEF Addresses, GetFuncForAddress
  <2>2. c.name = defs[a].name /\ defs[a].linkage # "private"
      BY <2>a, Callables, Zenon
  <2>3. defs[a].name \in DOMAIN ga.allocated_globals /\ ga.allocated_globals[defs[a].name].addr = a
    <3>1. \A h \in DOMAIN ga.allocated_hooks : ga.allocated_hooks[h] # a
        BY <1>1, <2>1, SMTT(30) DEF Addresses
    <3> QED
        BY <2>2, <3>1, Zenon DEF ValidPtr
  <2>4. CASE <<m, defs[a].name>> \in DOMAIN ga.module_private_allocated_globals
    <3>1. PICK e \in Reached : defs[e].linkage = "private" /\ defs[e].module = m /\ defs[e].name = defs[a].name
        BY <1>1, <2>4, Zenon DEF PrivateNames
    <3>2. t = e
        BY <1>1, <1>2, <2>2, <2>4, <3>1, SMTT(30) DEF PrivateNames, GetGlobalAllocation
    <3> QED
        BY <3>1, <3>2, Zenon
  <2>5. CASE <<m, defs[a].name>> \notin DOMAIN ga.module_private_allocated_globals
      BY <1>2, <2>2, <2>3, <2>5, Zenon DEF GetGlobalAllocation
  <2> QED
      BY <2>4, <2>5, Zenon
<1>4. CASE a \notin DOMAIN ga.addr_to_function
  <2>1. <<m, a>> \in DOMAIN ga.module_private_addr_to_function
      BY <1>2, <1>4, Zenon DEF GetFuncForAddress, NoCallable
  <2>2. /\ a \in Reached /\ defs[a].linkage = "private" /\ defs[a].module = m
        /\ c = LLVMFunction(defs[a].name)
      BY <1>1, <1>4, <2>1, SMTT(30) DEF Addresses, GetFuncForAddress
  <2>3. t = a
      BY <1>1, <1>2, <2>2, SMTT(30) DEF PrivateNames, GetGlobalAllocation, LLVMFunction
  <2> QED
      BY <2>3, Zenon
<1> QED
    BY <1>3, <1>4, Zenon

\* GInv is kept by the steps that leave memory and the operand alone.
LEMMA QuietStep ==
    ASSUME LInv, GInv, Created, evaluating = <<>>,
           UNCHANGED <<project, ga, next_addr, mem, initialized, operand, backtrack_points, stored>>,
           cur_module' \in Modules, callstack' \in Seq(Modules), ValidPtr(ptr'),
           PointerCallsEnter'
    PROVE  GInv'
<1>1. Untouched'
    BY StaysCreated, Zenon DEF Created
<1>2. Path'
    BY PathKept, Zenon DEF GInv
<1>3. Points'
    BY PointsKept, Zenon DEF GInv
<1>4. Evaluation'
    BY Idle, Zenon DEF GInv, Evaluation, operand
<1> QED
    BY <1>1, <1>2, <1>3, <1>4, Zenon DEF GInv

\* After a step that is not a call through a pointer there is nothing to say
\* of one.
LEMMA NoPointerCall == called' = NoCall => PointerCallsEnter'
<1> QED
    BY SMTT(30) DEF PointerCallsEnter, NoCall

\* GInv is kept by calls.
LEMMA CallStep ==
    ASSUME LInv, GInv, Running, NEW by, NEW r, EnterCall(by, r), by = "pointer" => r = ResolvePointer(ptr, cur_module) /\ ptr # NoAddr,
           by \in {"name", "pointer"}
    PROVE  GInv'
<1>1. UNCHANGED <<project, fh, ga, next_addr, ptr, mem, initialized, operand, backtrack_points, history>>
      /\ Created /\ ~panicked /\ evaluating = <<>>
    BY Zenon DEF EnterCall, Running, Created
<1>2. cur_module \in Modules /\ callstack \in Seq(Modules) /\ ValidPtr(ptr)
    BY Zenon DEF GInv, Path, PathOK
<1>3. cur_module' \in Modules /\ callstack' \in Seq(Modules)
  <2>1. CASE r.target \in 1..Len(defs) \ Vars
    <3>1. cur_module' = defs[r.target].module /\ callstack' = Append(callstack, cur_module)
        BY <2>1, Zenon DEF EnterCall
    <3>2. defs[r.target].module \in Modules
        BY <2>1, StoredAssumption, ProjectsAssumption, Zenon DEF LInv, LinkTypes, defs
    <3> QED
        BY <1>2, <3>1, <3>2, SMTT(30)
  <2>2. CASE r.target \notin 1..Len(defs) \ Vars
      BY <1>2, <2>2, Zenon DEF EnterCall
  <2> QED
      BY <2>1, <2>2, Zenon
<1>4. PointerCallsEnter'
  <2>1. /\ called'.by = by
        /\ called'.ptr = ptr
        /\ called'.module = cur_module
        /\ called'.target = r.target
      BY Zenon DEF EnterCall
  <2>2. defs' = defs
      BY <1>1, Zenon DEF defs
  <2>3. CASE by = "pointer" /\ r.target # NoAddr
    <3>1. \/ r.target = ptr
          \/ /\ defs[r.target].linkage = "private"
             /\ defs[r.target].module = cur_module
             /\ defs[r.target].name = defs[ptr].name
        BY <1>1, <1>2, <2>3, PointerEnters, SMTT(30)
    <3> QED
        BY <2>1, <2>2, <3>1, Zenon DEF PointerCallsEnter
  <2>4. CASE ~(by = "pointer" /\ r.target # NoAddr)
      BY <2>1, <2>4, Zenon DEF PointerCallsEnter
  <2> QED
      BY <2>3, <2>4, Zenon
<1> QED
    BY <1>1, <1>2, <1>3, <1>4, QuietStep, Zenon DEF history

\* One more value for the innermost activation.
LEMMA WithValueIs ==
    ASSUME NEW s \in Seq(Activations), s # <<>>, NEW v \in Nat, NEW ok \in BOOLEAN
    PROVE  LET t == WithValue(s, v, ok)
               n == Len(s)
           IN  /\ t \in Seq(Activations)
               /\ Len(t) = n
               /\ \A k \in 1..n : t[k].of = s[k].of /\ t[k].consts = s[k].consts
               /\ \A k \in 1..n : k # n => t[k] = s[k]
               /\ t[n].vals = Append(s[n].vals, v)
               /\ t[n].ok = (s[n].ok /\ ok)
<1> DEFINE n == Len(s)
           t == WithValue(s, v, ok)
           e == [s[n] EXCEPT !.vals = Append(s[n].vals, v), !.ok = s[n].ok /\ ok]
<1>1. n \in Nat /\ n \in 1..n /\ DOMAIN s = 1..n /\ s[n] \in Activations
    BY SMTT(30)
<1>2. s[n].ok \in BOOLEAN /\ s[n].vals \in Seq(Nat)
    BY <1>1, Zenon DEF Activations
<1>3. (s[n].ok /\ ok) \in BOOLEAN
    BY <1>2, Zenon
<1>4. Append(s[n].vals, v) \in Seq(Nat)
    BY <1>2, SMTT(30)
<1>5. e \in Activations
    BY <1>1, <1>3, <1>4, Zenon DEF Activations
<1>6. /\ e.vals = Append(s[n].vals, v)
      /\ e.ok = (s[n].ok /\ ok)
      /\ e.of = s[n].of
      /\ e.consts = s[n].consts
    BY <1>1, Zenon DEF Activations
<1>7. t = [s EXCEPT ![n] = e]
    BY <1>1, Zenon DEF WithValue, Concat
<1>8. t \in Seq(Activations) /\ Len(t) = n /\ t[n] = e /\ \A k \in 1..n : k # n => t[k] = s[k]
    BY <1>1, <1>5, <1>7, SMTT(30)
<1> HIDE DEF e, t
<1>9. \A k \in 1..n : t[k].of = s[k].of /\ t[k].consts = s[k].consts
    BY <1>6, <1>8, Zenon
<1> QED
    BY <1>6, <1>8, <1>9, Zenon DEF t

\* Constants come in lists.
LEMMA ListsAreSequences ==
    ASSUME LInv, NEW c \in Lists
    PROVE  Len(c) \in Nat /\ DOMAIN c = 1..Len(c)
<1>1. CASE c \in {<<n>> : n \in Names}
    BY <1>1, SMTT(30)
<1>2. CASE c \in {defs[a].init : a \in DOMAIN defs}
    BY <1>2, StoredAssumption, Zenon DEF LInv, LinkTypes, defs
<1> QED
    BY <1>1, <1>2, Zenon DEF Lists

\* GInv is kept by the evaluation of a constant.
LEMMA ConstantStep == LInv /\ GInv /\ EvaluateConstant => GInv'
<1> SUFFICES ASSUME LInv, GInv, EvaluateConstant PROVE GInv'
    BY Zenon
<1> DEFINE n == Len(evaluating)
           e == evaluating[n]
           c == e.consts[Len(e.vals) + 1]
           a == Meaning(c, cur_module)
<1>1. /\ Created /\ ~panicked
      /\ evaluating \in Seq(Activations) /\ evaluating # <<>>
      /\ n \in Nat /\ n \in 1..n /\ DOMAIN evaluating = 1..n /\ e \in Activations
    BY SMTT(30) DEF GInv, Evaluation, Created, EvaluateConstant
<1>2. /\ UNCHANGED <<project, fh, ga, next_addr, panicked, cur_module, callstack, ptr, called, mem, storing,
                    backtrack_points, failed, stored>>
      /\ defs' = defs /\ Vars' = Vars /\ Names' = Names /\ Activations' = Activations
    BY ProjectKept, Zenon DEF EvaluateConstant, env, control, history
<1>3. Len(e.vals) \in Nat /\ Len(e.consts) \in Nat /\ Len(e.vals) < Len(e.consts)
  <2>1. Len(e.consts) \in Nat
      BY <1>1, ListsAreSequences, Zenon DEF Activations
  <2>a. e.vals \in Seq(Nat)
      BY <1>1, Zenon DEF Activations
  <2>b. ActivationOK(e)
      BY <1>1, Zenon DEF GInv, Evaluation
  <2>2. Len(e.vals) \in Nat /\ Len(e.vals) <= Len(e.consts)
      BY <2>a, <2>b, SMTT(30) DEF ActivationOK
  <2>3. Len(e.vals) # Len(e.consts)
      BY Zenon DEF EvaluateConstant, Complete, Innermost
  <2> QED
      BY <2>1, <2>2, <2>3, SMTT(30)
<1>4. a \in Nat /\ ValidPtr(a)
    BY <1>1, MeaningsValid, Zenon DEF Meaning
<1>d. /\ n = Len(evaluating)
      /\ e = evaluating[n]
      /\ a = Meaning(e.consts[Len(e.vals) + 1], cur_module)
    BY Zenon
<1> HIDE DEF n, e, c, a
<1>5. initialized \subseteq initialized'
    BY Zenon DEF EvaluateConstant
<1>6. Untouched' /\ Path' /\ Points' /\ PointerCallsEnter'
  <2>1. Untouched'
      BY <1>1, <1>2, StaysCreated, Zenon DEF Created
  <2>2. Path'
      BY <1>2, <1>5, PathKept, Zenon DEF GInv, Path, PathOK
  <2>3. Points'
      BY <1>2, <1>5, PointsKept, Zenon DEF GInv
  <2>4. PointerCallsEnter'
      BY <1>2, Zenon DEF GInv, PointerCallsEnter
  <2> QED
      BY <2>1, <2>2, <2>3, <2>4, Zenon
<1>7. Created' /\ ~failed'
    BY <1>1, <1>2, Zenon DEF Created, Unallocated, GInv, Evaluation
<1>8. storing' # Nothing => storing' \in project'.stores
    BY <1>2, Zenon DEF GInv, Evaluation
<1>e. \A k \in 1..n : evaluating[k].vals \in Seq(Nat)
  <2>1. \A k \in 1..n : evaluating[k] \in Activations
      BY <1>1, <1>d, SMTT(30)
  <2> QED
      BY <2>1, Zenon DEF Activations
<1>f. \A k \in 1..n : ActivationOK(evaluating[k])
    BY <1>1, Zenon DEF GInv, Evaluation
<1>9. \A k \in 1..n : /\ Len(evaluating[k].vals) \in Nat
                       /\ Len(evaluating[k].vals) <= Len(evaluating[k].consts)
                       /\ \A j \in 1..Len(evaluating[k].vals) :
                             /\ evaluating[k].vals[j] = Meaning(evaluating[k].consts[j], cur_module)
                             /\ evaluating[k].vals[j] \in Vars => evaluating[k].vals[j] \in initialized
                             /\ evaluating[k].ok => evaluating[k].vals[j] # NoAddr
  <2> SUFFICES ASSUME NEW k \in 1..n PROVE Len(evaluating[k].vals) \in Nat
      BY <1>f, Zenon DEF ActivationOK
  <2> QED
      BY <1>e, SMTT(30)
<1>10. CASE NeedsInitializer(a)
  <2> DEFINE f == Activation(a, defs[a].init)
  <2>1. evaluating' = Append(evaluating, f) /\ initialized' = initialized \cup {a}
      BY <1>10, <1>d, Zenon DEF EvaluateConstant, Innermost
  <2>2. a \in Vars /\ a \notin initialized /\ a \in DOMAIN defs /\ stored[a] = Nothing
      BY <1>10, ProjectsAssumption, Zenon DEF NeedsInitializer, GInv, Path, PathOK, Kept, Vars, LInv, LinkTypes, defs
  <2>a. <<>> \in Seq(Nat) /\ TRUE \in BOOLEAN
      BY SMTT(30)
  <2>b. defs[a].init \in Lists
      BY <2>2, Zenon DEF Lists
  <2>3. f \in Activations
      BY <1>4, <2>a, <2>b, Zenon DEF Activation, Activations
  <2>5. f.of = a /\ f.consts = defs[a].init /\ f.vals = <<>>
      BY Zenon DEF Activation
  <2> HIDE DEF f
  <2>4. /\ evaluating' \in Seq(Activations) /\ evaluating' # <<>>
        /\ DOMAIN evaluating' = 1..(n + 1)
        /\ evaluating'[n + 1] = f
        /\ \A k \in 1..n : evaluating'[k] = evaluating[k]
      BY <1>1, <2>1, <2>3, SMTT(30)
  <2>c. Len(defs[a].init) \in Nat
      BY <2>b, ListsAreSequences, Zenon
  <2>6. Len(f.vals) = 0 /\ 0 <= Len(f.consts)
      BY <2>5, <2>c, SMTT(30)
  <2>7. ASSUME NEW k \in 1..(n + 1) PROVE ActivationOK(evaluating[k])'
    <3>1. CASE k = n + 1
        BY <2>4, <2>6, <3>1, SMTT(30) DEF ActivationOK
    <3>2. CASE k \in 1..n
        BY <1>2, <1>5, <1>f, <2>4, <3>2, ZenonT(30) DEF ActivationOK, Meaning
    <3> QED
        BY <1>1, <3>1, <3>2, SMTT(30)
  <2>8. ASSUME NEW k \in 1..(n + 1), k > 1 PROVE Inside(evaluating[k], evaluating[k - 1])'
    <3>1. CASE k = n + 1
      <4>1. k - 1 = n
          BY <1>1, <3>1, SMTT(30)
      <4> QED
          BY <1>1, <1>d, <1>2, <1>3, <2>1, <2>2, <2>4, <2>5, <3>1, <4>1, Zenon DEF Inside, Meaning
    <3>2. CASE k \in 1..n
      <4>1. k - 1 \in 1..n
          BY <1>1, <2>8, <3>2, SMTT(30)
      <4>2. Inside(evaluating[k], evaluating[k - 1])
          BY <1>1, <2>8, <3>2, Zenon DEF GInv, Evaluation
      <4> QED
          BY <1>2, <1>5, <2>4, <3>2, <4>1, <4>2, Zenon DEF Inside, Meaning
    <3> QED
        BY <1>1, <3>1, <3>2, SMTT(30)
  <2>9. 1 \in 1..n /\ evaluating'[1] = evaluating[1]
      BY <1>1, <2>4, SMTT(30)
  <2>10. Evaluation'
      BY <1>1, <1>2, <1>7, <1>8, <2>4, <2>7, <2>8, <2>9, ZenonT(30) DEF GInv, Evaluation, Meaning
  <2> QED
      BY <1>6, <2>10, Zenon DEF GInv
<1>11. CASE ~NeedsInitializer(a)
  <2> DEFINE ok == a # NoAddr
             t == WithValue(evaluating, a, ok)
  <2>1. evaluating' = t /\ initialized' = initialized
      BY <1>d, <1>11, Zenon DEF EvaluateConstant, Innermost
  <2>2. a \in Vars => a \in initialized
      BY <1>11, Zenon DEF NeedsInitializer
  <2>3. /\ t \in Seq(Activations)
        /\ Len(t) = n
        /\ \A k \in 1..n : t[k].of = evaluating[k].of /\ t[k].consts = evaluating[k].consts
        /\ \A k \in 1..n : k # n => t[k] = evaluating[k]
        /\ t[n].vals = Append(e.vals, a)
        /\ t[n].ok = (e.ok /\ ok)
    <3>1. ok \in BOOLEAN
        BY Zenon
    <3> HIDE DEF ok
    <3> USE DEF n, e
    <3> QED
        BY <1>1, <1>4, <3>1, WithValueIs, ZenonT(30)
  <2> HIDE DEF t
  <2>4. DOMAIN t = 1..n
      BY <2>3, SMTT(30)
  <2>5. /\ Len(t[n].vals) = Len(e.vals) + 1
        /\ t[n].vals[Len(e.vals) + 1] = a
        /\ \A j \in 1..Len(e.vals) : t[n].vals[j] = e.vals[j]
    <3>1. e.vals \in Seq(Nat)
        BY <1>1, Zenon DEF Activations
    <3> QED
        BY <1>4, <2>3, <3>1, SMTT(30)
  <2>6. ASSUME NEW k \in 1..n PROVE ActivationOK(evaluating[k])'
    <3>1. CASE k = n
      <4>a. t[n].consts = e.consts
          BY <1>1, <1>d, <2>3, Zenon
      <4>b. \A j \in 1..Len(e.vals) : /\ e.vals[j] = Meaning(e.consts[j], cur_module)
                                      /\ e.vals[j] \in Vars => e.vals[j] \in initialized
                                      /\ e.ok => e.vals[j] # NoAddr
          BY <1>1, <1>d, <1>f, Zenon DEF ActivationOK
      <4>c. t[n].ok => e.ok /\ a # NoAddr
          BY <2>3, Zenon
      <4>1. ASSUME NEW j \in 1..Len(t[n].vals)
            PROVE  /\ t[n].vals[j] = Meaning(t[n].consts[j], cur_module)
                   /\ t[n].vals[j] \in Vars => t[n].vals[j] \in initialized
                   /\ t[n].ok => t[n].vals[j] # NoAddr
        <5>1. CASE j = Len(e.vals) + 1
            BY <1>d, <2>2, <2>5, <4>a, <4>c, <5>1, Zenon
        <5>2. CASE j \in 1..Len(e.vals)
            BY <2>5, <4>a, <4>b, <4>c, <5>2, Zenon
        <5> QED
            BY <1>3, <2>5, <5>1, <5>2, SMTT(30)
      <4>2. Len(t[n].vals) <= Len(t[n].consts)
          BY <1>3, <2>5, <4>a, SMTT(30)
      <4> QED
          BY <1>2, <2>1, <3>1, <4>1, <4>2, Zenon DEF ActivationOK, Meaning
    <3>2. CASE k # n
      <4>1. ActivationOK(evaluating[k]) /\ evaluating'[k] = evaluating[k]
          BY <1>f, <2>1, <2>3, <3>2, Zenon
      <4> QED
          BY <1>2, <2>1, <4>1, Zenon DEF ActivationOK, Meaning
    <3> QED
        BY <3>1, <3>2, Zenon
  <2>7. ASSUME NEW k \in 1..n, k > 1 PROVE Inside(evaluating[k], evaluating[k - 1])'
    <3>a. k - 1 \in 1..n /\ k - 1 # n
        BY <1>1, <2>7, SMTT(30)
    <3>1. Inside(evaluating[k], evaluating[k - 1]) /\ k - 1 \in 1..n /\ k - 1 # n
        BY <1>1, <2>7, <3>a, Zenon DEF GInv, Evaluation
    <3> QED
        BY <1>2, <2>1, <2>3, <3>1, Zenon DEF Inside, Meaning
  <2>8. 1 \in 1..n /\ evaluating'[1].consts = evaluating[1].consts /\ evaluating' # <<>>
    <3>1. 1 \in 1..n
        BY <1>1, SMTT(30)
    <3>2. t[1].consts = evaluating[1].consts
        BY <2>3, <3>1, Zenon
    <3>3. t # <<>>
        BY <2>3, <3>1, SMTT(30)
    <3> QED
        BY <2>1, <3>1, <3>2, <3>3, Zenon
  <2>9. Evaluation'
      BY <1>1, <1>2, <1>7, <1>8, <2>1, <2>3, <2>4, <2>6, <2>7, <2>8, Zenon DEF GInv, Evaluation, Meaning
  <2> QED
      BY <1>6, <2>9, SMTT(30) DEF GInv
<1> QED
    BY <1>10, <1>11, Zenon

\* All but the last of several.
LEMMA FrontIs ==
    ASSUME NEW S, NEW q \in Seq(S), Len(q) > 1
    PROVE  /\ SubSeq(q, 1, Len(q) - 1) \in Seq(S)
           /\ Len(SubSeq(q, 1, Len(q) - 1)) = Len(q) - 1
           /\ SubSeq(q, 1, Len(q) - 1) # <<>>
           /\ \A k \in 1..(Len(q) - 1) : SubSeq(q, 1, Len(q) - 1)[k] = q[k]
<1> DEFINE s == SubSeq(q, 1, Len(q) - 1)
<1>1. s \in Seq(S) /\ Len(s) = Len(q) - 1 /\ \A k \in 1..(Len(q) - 1) : s[k] = q[k]
    BY SMTT(30)
<1> HIDE DEF s
<1>2. s # <<>>
    BY <1>1, SMTT(30)
<1> QED
    BY <1>1, <1>2, Zenon DEF s

\* GInv is kept when the value of an initializer is written.
LEMMA InitializerStep == LInv /\ GInv /\ WriteInitializer => GInv'
<1> SUFFICES ASSUME LInv, GInv, WriteInitializer PROVE GInv'
    BY SMTT(30)
<1> DEFINE n == Len(evaluating)
           e == evaluating[n]
           o == evaluating[n - 1]
           s == SubSeq(evaluating, 1, n - 1)
           t == WithValue(s, e.of, e.ok)
<1>1. /\ evaluating \in Seq(Activations)
      /\ n \in Nat /\ n > 1 /\ n \in 1..n /\ n - 1 \in 1..n /\ DOMAIN evaluating = 1..n
      /\ e \in Activations /\ o \in Activations
    BY SMTT(30) DEF GInv, Evaluation, WriteInitializer
<1>a. Created /\ ~panicked
    BY <1>1, SMTT(30) DEF GInv, Evaluation, Created
<1>2. /\ UNCHANGED <<project, fh, ga, next_addr, panicked, cur_module, callstack, ptr, called, storing,
                    backtrack_points, initialized, failed, stored>>
      /\ defs' = defs /\ Vars' = Vars /\ Names' = Names /\ Activations' = Activations
    BY ProjectKept, Zenon DEF WriteInitializer, env, control, history
<1>3. /\ evaluating' = t
      /\ mem' = IF e.ok THEN [mem EXCEPT ![e.of] = e.vals] ELSE mem
      /\ Len(e.vals) = Len(e.consts)
    BY Zenon DEF WriteInitializer, Complete, Innermost
<1>4. /\ ActivationOK(e)
      /\ Inside(e, o)
      /\ ActivationOK(o)
    BY <1>1, Zenon DEF GInv, Evaluation
<1>5. /\ s \in Seq(Activations)
      /\ Len(s) = n - 1
      /\ s # <<>>
      /\ \A k \in 1..(n - 1) : s[k] = evaluating[k]
    BY <1>1, FrontIs, Zenon
<1>6. e.of \in Nat /\ e.ok \in BOOLEAN /\ e.vals \in Seq(Nat) /\ o.vals \in Seq(Nat)
    BY <1>1, Zenon DEF Activations
<1> HIDE DEF s, n, e, o
<1>b. /\ t \in Seq(Activations)
      /\ Len(t) = Len(s)
      /\ \A k \in 1..Len(s) : t[k].of = s[k].of /\ t[k].consts = s[k].consts
      /\ \A k \in 1..Len(s) : k # Len(s) => t[k] = s[k]
      /\ t[Len(s)].vals = Append(s[Len(s)].vals, e.of)
      /\ t[Len(s)].ok = (s[Len(s)].ok /\ e.ok)
    BY <1>5, <1>6, WithValueIs, Zenon
<1> HIDE DEF t
<1>7. /\ t \in Seq(Activations)
      /\ Len(t) = n - 1
      /\ \A k \in 1..(n - 1) : t[k].of = s[k].of /\ t[k].consts = s[k].consts
      /\ \A k \in 1..(n - 1) : k # n - 1 => t[k] = s[k]
      /\ t[n - 1].vals = Append(s[n - 1].vals, e.of)
      /\ t[n - 1].ok = (s[n - 1].ok /\ e.ok)
    BY <1>5, <1>b, Zenon
<1>8. n - 1 \in 1..(n - 1) /\ s[n - 1] = o
    BY <1>1, <1>5, SMTT(30) DEF o
<1>9. e.of \in Vars /\ e.of \in initialized /\ stored[e.of] = Nothing /\ e.consts = defs[e.of].init
      /\ e.of = Meaning(o.consts[Len(o.vals) + 1], cur_module)
    BY <1>4, Zenon DEF Inside
<1>c. \A x \in Vars : x # NoAddr
    BY SMTT(30) DEF Vars, NoAddr
<1>10. e.of # NoAddr
    BY <1>9, <1>c, Zenon
<1>11. Untouched'
    BY <1>2, <1>a, StaysCreated, Zenon DEF Created
<1>12. Path'
  <2>1. CASE e.ok
    <3>1. mem' = [mem EXCEPT ![e.of] = e.vals] /\ mem = [x \in Vars |-> mem[x]]
        BY <1>3, <2>1, Zenon DEF GInv, Path, PathOK
    <3>2. mem' = [x \in Vars |-> mem'[x]] /\ mem'[e.of] = e.vals /\ \A x \in Vars : x # e.of => mem'[x] = mem[x]
        BY <1>9, <3>1, Zenon
    <3>3. /\ DOMAIN e.vals = DOMAIN defs[e.of].init
          /\ \A k \in DOMAIN defs[e.of].init : e.vals[k] = Meaning(defs[e.of].init[k], cur_module)
      <4>1. e.of \in DOMAIN defs
          BY <1>9, ProjectsAssumption, Zenon DEF Vars, LInv, LinkTypes, defs
      <4>2. DOMAIN defs[e.of].init = 1..Len(defs[e.of].init)
          BY <4>1, ListsAreSequences, Zenon DEF Lists
      <4>3. DOMAIN e.vals = 1..Len(e.vals)
          BY <1>6, SMTT(30)
      <4> QED
          BY <1>3, <1>4, <1>9, <4>2, <4>3, Zenon DEF ActivationOK
    <3>4. ASSUME NEW x \in Vars, mem'[x] \notin Stored \cup {Uninitialized}
          PROVE  \E m \in Modules :
                     /\ DOMAIN mem'[x] = DOMAIN defs[x].init
                     /\ \A k \in DOMAIN defs[x].init : mem'[x][k] = Meaning(defs[x].init[k], m)
      <4>1. CASE x = e.of
        <5>1. cur_module \in Modules
            BY Zenon DEF GInv, Path, PathOK
        <5> QED
            BY <3>2, <3>3, <4>1, <5>1, Zenon
      <4>2. CASE x # e.of
          BY <3>2, <3>4, <4>2, SMTT(30) DEF GInv, Path, PathOK, Contents
      <4> QED
          BY <4>1, <4>2, Zenon
    <3>5. Contents(mem)'
        BY <1>2, <3>4, ZenonT(30) DEF Contents, Meaning
    <3>6. Kept(mem, stored)'
        BY <1>2, <1>9, <3>2, Zenon DEF GInv, Path, PathOK, Kept
    <3>7. ValidPtr(ptr)'
        BY <1>2, Zenon DEF GInv, Path, PathOK, ValidPtr
    <3>8. cur_module \in Modules /\ callstack \in Seq(Modules) /\ stored = [x \in Vars |-> stored[x]]
        BY Zenon DEF GInv, Path, PathOK
    <3> QED
        BY <1>2, <3>2, <3>5, <3>6, <3>7, <3>8, Zenon DEF Path, PathOK
  <2>2. CASE ~e.ok
      BY <1>2, <1>3, <2>2, PathKept, Zenon DEF GInv, Path, PathOK
  <2> QED
      BY <2>1, <2>2, Zenon
<1>13. Points'
    BY <1>2, PointsKept, Zenon DEF GInv
<1>14. PointerCallsEnter'
    BY <1>2, SMTT(30) DEF GInv, PointerCallsEnter
<1>15. Evaluation'
  <2>1. Created' /\ ~failed'
    <3>1. ~failed
        BY <1>1, SMTT(30) DEF GInv, Evaluation
    <3> QED
        BY <1>2, <1>a, <3>1, Zenon DEF Created, Unallocated
  <2>2. DOMAIN t = 1..(n - 1)
      BY <1>7, SMTT(30)
  <2>3. ASSUME NEW k \in 1..(n - 1) PROVE ActivationOK(evaluating[k])'
    <3>1. CASE k = n - 1
      <4>1. /\ Len(t[n - 1].vals) = Len(o.vals) + 1
            /\ t[n - 1].vals[Len(o.vals) + 1] = e.of
            /\ \A j \in 1..Len(o.vals) : t[n - 1].vals[j] = o.vals[j]
            /\ Len(o.vals) \in Nat
          BY <1>6, <1>7, <1>8, SMTT(30)
      <4>2. t[n - 1].consts = o.consts
          BY <1>7, <1>8, Zenon
      <4>3. t[n - 1].ok => o.ok
          BY <1>7, <1>8, Zenon
      <4>4. ASSUME NEW j \in 1..Len(t[n - 1].vals)
            PROVE  /\ t[n - 1].vals[j] = Meaning(t[n - 1].consts[j], cur_module)
                   /\ t[n - 1].vals[j] \in Vars => t[n - 1].vals[j] \in initialized
                   /\ t[n - 1].ok => t[n - 1].vals[j] # NoAddr
        <5>1. CASE j = Len(o.vals) + 1
            BY <1>9, <1>10, <4>1, <4>2, <5>1, Zenon
        <5>2. CASE j \in 1..Len(o.vals)
            BY <1>4, <4>1, <4>2, <4>3, <5>2, Zenon DEF ActivationOK
        <5> QED
            BY <4>1, <5>1, <5>2, SMTT(30)
      <4>5. Len(t[n - 1].vals) <= Len(t[n - 1].consts)
        <5>1. Len(o.vals) < Len(o.consts)
            BY <1>4, Zenon DEF Inside
        <5>2. Len(o.consts) \in Nat
            BY <1>1, ListsAreSequences, Zenon DEF Activations
        <5> QED
            BY <4>1, <4>2, <5>1, <5>2, SMTT(30)
      <4> QED
          BY <1>2, <1>3, <3>1, <4>4, <4>5, Zenon DEF ActivationOK, Meaning
    <3>2. CASE k # n - 1
      <4>1. ActivationOK(evaluating[k])
          BY <1>1, SMTT(30) DEF GInv, Evaluation
      <4>2. evaluating'[k] = evaluating[k]
          BY <1>3, <1>5, <1>7, <3>2, Zenon
      <4> QED
          BY <1>2, <4>1, <4>2, Zenon DEF ActivationOK, Meaning
    <3> QED
        BY <3>1, <3>2, Zenon
  <2>4. ASSUME NEW k \in 1..(n - 1), k > 1 PROVE Inside(evaluating[k], evaluating[k - 1])'
    <3>a. k \in 1..n /\ k - 1 \in 1..(n - 1) /\ k - 1 # n - 1
      <4> HIDE DEF n
      <4> QED
          BY <1>1, <2>4, SMTT(30)
    <3>1. Inside(evaluating[k], evaluating[k - 1]) /\ k - 1 \in 1..(n - 1) /\ k - 1 # n - 1
        BY <1>1, <2>4, <3>a, Zenon DEF GInv, Evaluation
    <3>2. evaluating'[k - 1] = evaluating[k - 1]
        BY <1>3, <1>5, <1>7, <3>1, Zenon
    <3>3. evaluating'[k].of = evaluating[k].of /\ evaluating'[k].consts = evaluating[k].consts
        BY <1>3, <1>5, <1>7, Zenon
    <3> QED
        BY <1>2, <3>1, <3>2, <3>3, ZenonT(30) DEF Inside, Meaning
  <2>5. evaluating'[1].consts = evaluating[1].consts /\ t # <<>>
    <3>1. 1 \in 1..(n - 1)
        BY <1>1, SMTT(30)
    <3>2. t # <<>>
        BY <1>7, <3>1, SMTT(30)
    <3> QED
        BY <1>3, <1>5, <1>7, <3>1, <3>2, Zenon
  <2>6. evaluating # <<>>
      BY <1>1, SMTT(30)
  <2> QED
      BY <1>2, <1>3, <1>7, <2>1, <2>2, <2>3, <2>4, <2>5, <2>6, Zenon DEF GInv, Evaluation, Meaning
<1> QED
    BY <1>11, <1>12, <1>13, <1>14, <1>15, Zenon DEF GInv

\* GInv is kept by the rest of an instruction.
LEMMA ExecuteStep == LInv /\ GInv /\ Execute => GInv'
<1> SUFFICES ASSUME LInv, GInv, Execute PROVE GInv'
    BY SMTT(30)
<1> DEFINE e == evaluating[1]
           a == e.vals[1]
<1>1. /\ evaluating \in Seq(Activations) /\ Len(evaluating) = 1
      /\ DOMAIN evaluating = 1..1 /\ e \in Activations /\ evaluating # <<>>
    BY SMTT(30) DEF GInv, Evaluation, Execute
<1>2. Created /\ ~panicked /\ Len(e.consts) = 1
    BY <1>1, Zenon DEF GInv, Evaluation, Created
<1>3. /\ UNCHANGED <<project, fh, ga, next_addr, panicked, cur_module, callstack, called, backtrack_points, initialized>>
      /\ defs' = defs /\ Vars' = Vars
    BY ProjectKept, Zenon DEF Execute, env
<1>4. /\ ptr' = IF e.ok /\ storing = Nothing THEN a ELSE ptr
      /\ mem' = IF e.ok /\ storing # Nothing THEN [mem EXCEPT ![a] = storing] ELSE mem
      /\ stored' = IF e.ok /\ storing # Nothing THEN [stored EXCEPT ![a] = storing] ELSE stored
      /\ evaluating' = <<>>
      /\ storing' = Nothing
      /\ Len(e.vals) = Len(e.consts)
    BY <1>1, Zenon DEF Execute, Complete, Innermost
<1>5. /\ a = Meaning(e.consts[1], cur_module)
      /\ a \in Vars => a \in initialized
      /\ e.ok => a # NoAddr
  <2>1. ActivationOK(e)
      BY <1>1, SMTT(30) DEF GInv, Evaluation
  <2>2. 1 \in 1..Len(e.vals)
      BY <1>2, <1>4, SMTT(30)
  <2> QED
      BY <2>1, <2>2, Zenon DEF ActivationOK
<1>6. ValidPtr(a)
    BY <1>2, <1>5, MeaningsValid, Zenon DEF Meaning
<1> HIDE DEF e, a
<1>7. Untouched'
    BY <1>2, <1>3, StaysCreated, Zenon DEF Created
<1>8. Points'
    BY <1>3, PointsKept, Zenon DEF GInv
<1>9. PointerCallsEnter'
    BY <1>3, Zenon DEF GInv, PointerCallsEnter
<1>10. Evaluation'
    BY <1>4, Idle, Zenon
<1>11. Path'
  <2>1. cur_module \in Modules /\ callstack \in Seq(Modules) /\ ValidPtr(ptr)
        /\ mem = [x \in Vars |-> mem[x]] /\ stored = [x \in Vars |-> stored[x]]
        /\ Contents(mem) /\ Kept(mem, stored)
      BY Zenon DEF GInv, Path, PathOK
  <2>2. CASE e.ok /\ storing # Nothing
    <3>1. a \in Vars /\ a \in initialized
        BY <1>1, <1>5, <2>2, Zenon DEF GInv, Evaluation, e
    <3>2. storing \in Stored
        BY <2>2, StoredAssumption, Zenon DEF GInv, Evaluation, LInv, LinkTypes
    <3>3. mem' = [mem EXCEPT ![a] = storing] /\ stored' = [stored EXCEPT ![a] = storing]
        BY <1>4, <2>2, Zenon
    <3>4. /\ mem' = [x \in Vars |-> mem'[x]]
          /\ mem'[a] = storing
          /\ \A x \in Vars : x # a => mem'[x] = mem[x]
        BY <2>1, <3>1, <3>3, Zenon
    <3>5. /\ stored' = [x \in Vars |-> stored'[x]]
          /\ stored'[a] = storing
          /\ \A x \in Vars : x # a => stored'[x] = stored[x]
        BY <2>1, <3>1, <3>3, Zenon
    <3>6. Contents(mem)'
        BY <1>3, <2>1, <3>2, <3>4, SMTT(30) DEF Contents, Meaning
    <3>7. Kept(mem, stored)'
        BY <1>3, <2>1, <3>1, <3>4, <3>5, Zenon DEF Kept
    <3>8. ValidPtr(ptr)'
        BY <1>3, <1>4, <2>1, <2>2, Zenon DEF ValidPtr
    <3> QED
        BY <1>3, <2>1, <3>4, <3>5, <3>6, <3>7, <3>8, Zenon DEF Path, PathOK
  <2>3. CASE ~(e.ok /\ storing # Nothing)
    <3>1. mem' = mem /\ stored' = stored
        BY <1>4, <2>3, Zenon
    <3>2. ValidPtr(ptr')
        BY <1>4, <1>6, <2>1, Zenon
    <3> QED
        BY <1>3, <2>1, <3>1, <3>2, PathKept, Zenon DEF GInv
  <2> QED
      BY <2>2, <2>3, Zenon
<1> QED
    BY <1>7, <1>8, <1>9, <1>10, <1>11, Zenon DEF GInv

\* Every step preserves GInv.
LEMMA GlobalsStep == LInv /\ GInv /\ [Next]_vars => GInv'
<1> SUFFICES ASSUME LInv, GInv, [Next]_vars PROVE GInv'
    BY Zenon
<1>0. /\ cur_module \in Modules /\ callstack \in Seq(Modules) /\ ValidPtr(ptr)
      /\ mem = [x \in Vars |-> mem[x]] /\ stored = [x \in Vars |-> stored[x]]
      /\ Contents(mem) /\ Kept(mem, stored)
    BY Zenon DEF GInv, Path, PathOK
<1>1. CASE New
  <2>1. /\ project' = project
        /\ UNCHANGED <<cur_module, callstack, ptr, called, mem, initialized, evaluating, storing, backtrack_points, stored>>
      BY <1>1, Zenon DEF New, AllocateDefinition, AllocateHook, control, operand, history
  <2>2. defs' = defs /\ Vars' = Vars
      BY <2>1, ProjectKept, Zenon
  <2>3. next_addr <= Len(defs) \/ Unallocated # {}
      BY <1>1, Zenon DEF New, AllocateDefinition, AllocateHook
  <2>4. mem = [a \in Vars |-> Uninitialized] /\ evaluating = <<>> /\ backtrack_points = <<>>
        /\ ptr = NoAddr /\ called = NoCall
      BY <2>3, Zenon DEF GInv, Untouched
  <2>5. Untouched'
      BY <2>1, <2>2, <2>4, Zenon DEF Untouched
  <2>6. Path'
    <3>1. ValidPtr(ptr)' /\ Contents(mem)' /\ Kept(mem, stored)'
        BY <1>0, <2>1, <2>2, <2>4, Zenon DEF ValidPtr, Contents, Kept
    <3> QED
        BY <1>0, <2>1, <2>2, <3>1, Zenon DEF Path, PathOK
  <2>7. Points'
      BY <2>1, <2>4, SMTT(30) DEF Points
  <2>8. Evaluation'
      BY <2>1, <2>4, Idle, Zenon DEF GInv, Evaluation
  <2>9. PointerCallsEnter'
      BY <2>1, <2>4, NoPointerCall, Zenon
  <2> QED
      BY <2>5, <2>6, <2>7, <2>8, <2>9, Zenon DEF GInv
<1>2. ASSUME NEW n \in Names, NEW v \in project.stores \cup {Nothing}, EvaluateOperand(n, v) PROVE GInv'
  <2>1. /\ UNCHANGED <<project, fh, ga, next_addr, panicked, cur_module, callstack, ptr, mem, initialized,
                        backtrack_points, failed, stored>>
        /\ Created /\ ~failed /\ called' = NoCall
        /\ evaluating' = <<Activation(NoAddr, <<n>>)>> /\ storing' = v
        /\ v # Nothing => Meaning(n, cur_module) \in Vars \cup {NoAddr}
      BY <1>2, Zenon DEF EvaluateOperand, Running, env, history
  <2>2. Untouched'
      BY <2>1, StaysCreated, Zenon DEF Created
  <2>3. Path'
      BY <1>0, <2>1, PathKept, Zenon DEF GInv
  <2>4. Points'
      BY <2>1, PointsKept, Zenon DEF GInv
  <2>5. PointerCallsEnter'
      BY <2>1, NoPointerCall, ZenonT(30)
  <2>6. defs' = defs /\ Vars' = Vars /\ Names' = Names /\ Activations' = Activations
      BY <2>1, ProjectKept, Zenon
  <2>7. Evaluation'
    <3> DEFINE f == Activation(NoAddr, <<n>>)
    <3>1. <<>> \in Seq(Nat) /\ TRUE \in BOOLEAN /\ NoAddr \in Nat /\ <<n>> \in Lists
        BY SMTT(30) DEF Lists, NoAddr
    <3>2. f \in Activations
        BY <3>1, Zenon DEF Activation, Activations
    <3>3. f.vals = <<>> /\ f.consts = <<n>>
        BY Zenon DEF Activation
    <3> HIDE DEF f
    <3>4. evaluating' \in Seq(Activations) /\ DOMAIN evaluating' = 1..1 /\ evaluating'[1] = f /\ evaluating' # <<>>
      <4>1. /\ <<f>> \in Seq(Activations)
            /\ DOMAIN <<f>> = 1..1 /\ <<f>>[1] = f /\ <<f>> # <<>>
          BY <3>2, OneActivation, Zenon
      <4>2. evaluating' = <<f>>
          BY <2>1, Zenon DEF f
      <4> QED
          BY <4>1, <4>2, Zenon
    <3>5. Len(f.vals) = 0 /\ Len(f.consts) = 1 /\ f.consts[1] = n
        BY <3>3, SMTT(30)
    <3>6. ActivationOK(evaluating[1])'
        BY <3>4, <3>5, SMTT(30) DEF ActivationOK
    <3>7. Created' /\ ~failed'
        BY <2>1, Zenon DEF Created, Unallocated, defs
    <3>8. v # Nothing => v \in project.stores
        BY Zenon
    <3>9. \A k \in 1..1 : k = 1 /\ ~(k > 1)
        BY SMTT(30)
    <3> QED
        BY <2>1, <2>6, <3>4, <3>5, <3>6, <3>7, <3>8, <3>9, Zenon DEF Evaluation, Meaning
  <2> QED
      BY <2>2, <2>3, <2>4, <2>5, <2>7, Zenon DEF GInv
<1>3. CASE EvaluateConstant
    BY <1>3, ConstantStep, Zenon
<1>4. CASE WriteInitializer
    BY <1>4, InitializerStep, SMTT(30)
<1>5. CASE Execute
    BY <1>5, ExecuteStep, SMTT(30)
<1>6. ASSUME NEW k \in 1..2, LoadPointer(k) PROVE GInv'
  <2>1. /\ UNCHANGED <<project, ga, next_addr, cur_module, callstack, mem, initialized, operand, backtrack_points, stored>>
        /\ Created /\ ~panicked /\ evaluating = <<>> /\ called' = NoCall /\ ptr' = mem[ptr][k]
        /\ ptr \in Vars /\ mem[ptr] \notin Stored \cup {Uninitialized} /\ k \in DOMAIN mem[ptr]
      BY <1>6, Zenon DEF LoadPointer, Running, Created, env, history
  <2>2. PICK m \in Modules : /\ DOMAIN mem[ptr] = DOMAIN defs[ptr].init
                             /\ \A j \in DOMAIN defs[ptr].init : mem[ptr][j] = Meaning(defs[ptr].init[j], m)
      BY <1>0, <2>1, Zenon DEF Contents
  <2>3. ValidPtr(mem[ptr][k])
    <3>1. mem[ptr][k] = Meaning(defs[ptr].init[k], m)
        BY <2>1, <2>2, Zenon
    <3> DEFINE a == Meaning(defs[ptr].init[k], m)
    <3>2. ValidPtr(a)
        BY <2>1, MeaningsValid, Zenon DEF Meaning
    <3> QED
        BY <3>1, <3>2, Zenon
  <2> QED
      BY <1>0, <2>1, <2>3, NoPointerCall, QuietStep, Zenon
<1>7. ASSUME NEW n \in Names, GetPointerToHook(n) PROVE GInv'
  <2>1. /\ UNCHANGED <<project, ga, next_addr, cur_module, callstack, mem, initialized, operand, backtrack_points, stored>>
        /\ Created /\ evaluating = <<>> /\ called' = NoCall
        /\ GetHookFor(fh, n) \in DOMAIN ga.allocated_hooks /\ ptr' = ga.allocated_hooks[GetHookFor(fh, n)]
      BY <1>7, Zenon DEF GetPointerToHook, Running, env, history
  <2>2. ValidPtr(ptr')
      BY <2>1, Zenon DEF ValidPtr
  <2> QED
      BY <1>0, <2>1, <2>2, NoPointerCall, QuietStep, Zenon
<1>8. ASSUME NEW n \in Names, CallName(n) PROVE GInv'
    BY <1>8, CallStep, Zenon DEF CallName
<1>9. CASE Configure
  <2>1. /\ UNCHANGED <<project, ga, next_addr, cur_module, callstack, ptr, mem, initialized, operand, backtrack_points, stored>>
        /\ Created /\ evaluating = <<>> /\ called' = NoCall
      BY <1>9, Zenon DEF Configure, HooksChange, ChangeHooks, Running, history
  <2> QED
      BY <1>0, <2>1, NoPointerCall, QuietStep, Zenon
<1>10. CASE CallPointer
  <2>1. CASE GetFuncForAddress(ga, ptr, cur_module) = NoCallable
    <3>1. /\ UNCHANGED <<project, ga, next_addr, cur_module, callstack, ptr, mem, initialized, operand, backtrack_points, stored>>
          /\ Created /\ evaluating = <<>> /\ called' = NoCall
        BY <1>10, <2>1, Zenon DEF CallPointer, Running, env, history
    <3> QED
        BY <1>0, <3>1, NoPointerCall, QuietStep, SMTT(30)
  <2>2. CASE GetFuncForAddress(ga, ptr, cur_module) # NoCallable
      BY <1>10, <2>2, CallStep, Zenon DEF CallPointer
  <2> QED
      BY <2>1, <2>2, Zenon
<1>11. CASE CallInlineAsm
  <2>1. /\ UNCHANGED <<project, ga, next_addr, cur_module, callstack, ptr, mem, initialized, operand, backtrack_points, stored>>
        /\ Created /\ evaluating = <<>> /\ called'.by = "asm"
      BY <1>11, Zenon DEF CallInlineAsm, Running, env, history
  <2>2. PointerCallsEnter'
      BY <2>1, Zenon DEF PointerCallsEnter
  <2> QED
      BY <1>0, <2>1, <2>2, QuietStep, Zenon
<1>12. CASE Return
  <2>1. /\ UNCHANGED <<project, ga, next_addr, ptr, mem, initialized, operand, backtrack_points, stored>>
        /\ Created /\ evaluating = <<>> /\ called' = NoCall
        /\ callstack # <<>> /\ cur_module' = callstack[Len(callstack)]
        /\ callstack' = SubSeq(callstack, 1, Len(callstack) - 1)
      BY <1>12, Zenon DEF Return, Running, env, history
  <2>2. cur_module' \in Modules /\ callstack' \in Seq(Modules)
      BY <1>0, <2>1, SMTT(30)
  <2> QED
      BY <1>0, <2>1, <2>2, NoPointerCall, QuietStep, Zenon
<1>13. CASE SaveBacktrackingPoint
  <2> DEFINE n == Len(backtrack_points)
             bp == [cur_module |-> cur_module, callstack |-> callstack, ptr |-> ptr, mem |-> mem,
                    referenced |-> referenced, stored |-> stored]
  <2>1. /\ UNCHANGED <<project, ga, next_addr, cur_module, callstack, ptr, mem, initialized, operand, stored>>
        /\ Created /\ evaluating = <<>> /\ called' = NoCall
        /\ backtrack_points' = Append(backtrack_points, bp)
      BY <1>13, Zenon DEF SaveBacktrackingPoint, Running, env, history
  <2>a. bp.cur_module = cur_module /\ bp.callstack = callstack /\ bp.ptr = ptr /\ bp.mem = mem /\ bp.stored = stored
      BY Zenon
  <2> HIDE DEF bp
  <2>2. Untouched'
      BY <2>1, StaysCreated, Zenon DEF Created
  <2>3. Path'
      BY <1>0, <2>1, PathKept, Zenon DEF GInv
  <2>4. Evaluation'
      BY <2>1, Idle, Zenon DEF GInv, Evaluation, operand
  <2>5. PointerCallsEnter'
      BY <2>1, NoPointerCall, Zenon
  <2>6. Points'
    <3>1. n \in Nat /\ DOMAIN backtrack_points = 1..n
        BY Zenon DEF GInv, Points
    <3>2. /\ Len(backtrack_points') = n + 1 /\ DOMAIN backtrack_points' = 1..(n + 1)
          /\ backtrack_points'[n + 1] = bp
          /\ \A k \in 1..n : backtrack_points'[k] = backtrack_points[k]
        BY <2>1, <3>1, SMTT(30)
    <3>3. defs' = defs /\ Vars' = Vars
        BY <2>1, ProjectKept, Zenon
    <3>4. ASSUME NEW k \in 1..(n + 1) PROVE PointOK(backtrack_points[k])'
      <4>1. CASE k = n + 1
        <5>1. /\ backtrack_points'[k].cur_module = cur_module' /\ backtrack_points'[k].callstack = callstack'
              /\ backtrack_points'[k].ptr = ptr' /\ backtrack_points'[k].mem = mem'
              /\ backtrack_points'[k].stored = stored'
            BY <2>1, <2>a, <3>2, <4>1, Zenon
        <5> QED
            BY <2>3, <5>1, Zenon DEF PointOK, Path
      <4>2. CASE k \in 1..n
        <5>1. PointOK(backtrack_points[k]) /\ backtrack_points'[k] = backtrack_points[k]
            BY <3>1, <3>2, <4>2, Zenon DEF GInv, Points
        <5>2. PointOK(backtrack_points[k])'
            BY <2>1, <5>1, PointKept, Zenon
        <5> QED
            BY <5>2, Zenon
      <4> QED
          BY <3>1, <4>1, <4>2, SMTT(30)
    <3> QED
        BY <3>1, <3>2, <3>4, SMTT(30) DEF Points
  <2> QED
      BY <2>2, <2>3, <2>4, <2>5, <2>6, Zenon DEF GInv
<1>14. CASE RevertToBacktrackingPoint
  <2> DEFINE n == Len(backtrack_points)
             bp == backtrack_points[n]
  <2>1. /\ UNCHANGED <<project, ga, next_addr, initialized, operand>>
        /\ evaluating = <<>> /\ called' = NoCall /\ ~panicked
        /\ backtrack_points # <<>> /\ backtrack_points' = SubSeq(backtrack_points, 1, n - 1)
        /\ cur_module' = bp.cur_module /\ callstack' = bp.callstack /\ ptr' = bp.ptr
        /\ mem' = bp.mem /\ stored' = bp.stored
      BY <1>14, Zenon DEF RevertToBacktrackingPoint, env
  <2>2. n \in Nat /\ DOMAIN backtrack_points = 1..n /\ n # 0
      BY <2>1, SMTT(30) DEF GInv, Points
  <2>3. PathOK(bp.cur_module, bp.callstack, bp.ptr, bp.mem, bp.stored)
      BY <2>2, SMTT(30) DEF GInv, Points, PointOK
  <2>4. defs' = defs /\ Vars' = Vars
      BY <2>1, Zenon DEF defs, Vars
  <2>5. Path'
    <3>1. ValidPtr(ptr)' /\ Contents(mem)' /\ Kept(mem, stored)'
      <4>1. ValidPtr(bp.ptr) /\ Contents(bp.mem) /\ Kept(bp.mem, bp.stored)
          BY <2>3, Zenon DEF PathOK
      <4>2. ValidPtr(ptr)'
          BY <2>1, <2>4, <4>1, Zenon DEF ValidPtr
      <4>3. Contents(mem)'
          BY <2>1, <2>4, <4>1, ZenonT(30) DEF Contents, Meaning
      <4>4. Kept(mem, stored)'
          BY <2>1, <2>4, <4>1, Zenon DEF Kept
      <4> QED
          BY <4>2, <4>3, <4>4, Zenon
    <3> QED
        BY <2>1, <2>3, <2>4, <3>1, Zenon DEF Path, PathOK
  <2>6. Points'
    <3>1. /\ Len(backtrack_points') = n - 1 /\ DOMAIN backtrack_points' = 1..(n - 1) /\ n - 1 \in Nat
          /\ \A k \in 1..(n - 1) : backtrack_points'[k] = backtrack_points[k]
        BY <2>1, <2>2, SMTT(30)
    <3>2. ASSUME NEW k \in 1..(n - 1) PROVE PointOK(backtrack_points[k])'
      <4>1. PointOK(backtrack_points[k]) /\ backtrack_points'[k] = backtrack_points[k]
          BY <2>2, <3>1, SMTT(30) DEF GInv, Points
      <4> QED
          BY <2>1, <4>1, PointKept, Zenon
    <3> QED
        BY <3>1, <3>2, Zenon DEF Points
  <2>7. Untouched'
    <3>1. ~(next_addr <= Len(defs) \/ Unallocated # {})
        BY <2>1, Zenon DEF GInv, Untouched
    <3> QED
        BY <2>1, <2>4, <3>1, Zenon DEF Untouched, Unallocated
  <2>8. Evaluation'
      BY <2>1, Idle, Zenon DEF GInv, Evaluation, operand
  <2>9. PointerCallsEnter'
      BY <2>1, NoPointerCall, Zenon
  <2> QED
      BY <2>5, <2>6, <2>7, <2>8, <2>9, Zenon DEF GInv
<1>15. CASE UNCHANGED vars
  <2>1. UNCHANGED <<project, ga, next_addr, panicked, cur_module, callstack, ptr, called, mem, initialized, evaluating,
                    storing, backtrack_points, failed, stored>>
      BY <1>15, Zenon DEF vars, env, control, operand, history
  <2>2. defs' = defs /\ Vars' = Vars /\ Names' = Names /\ Unallocated' = Unallocated /\ Lists' = Lists
        /\ (Created' <=> Created)
      BY <2>1, Zenon DEF defs, Vars, Names, Unallocated, Lists, Created
  <2>3. Untouched'
      BY <2>1, <2>2, Zenon DEF GInv, Untouched
  <2>4. Path'
      BY <1>0, <2>1, PathKept, Zenon DEF GInv
  <2>5. Points'
      BY <2>1, PointsKept, Zenon DEF GInv
  <2>6. Evaluation'
      BY <2>1, <2>2, Zenon DEF GInv, Evaluation, Activations, ActivationOK, Inside, Meaning
  <2>7. PointerCallsEnter'
      BY <2>1, <2>2, Zenon DEF GInv, PointerCallsEnter
  <2> QED
      BY <2>3, <2>4, <2>5, <2>6, <2>7, SMTT(30) DEF GInv
<1> QED
    BY <1>1, <1>2, <1>3, <1>4, <1>5, <1>6, <1>7, <1>8, <1>9, <1>10, <1>11, <1>12, <1>13, <1>14, <1>15, Zenon DEF Next

\* The steps of a path keep the maps as Linking leaves them, and GInv.
THEOREM GlobalsInvariance == Spec => [](LInv /\ GInv)
<1> DEFINE I == panicked \in BOOLEAN /\ LInv /\ GInv
<1>1. Init => I
    BY LinkInitially, GlobalsInitially, Zenon DEF Init, LinkInit
<1>2. I /\ [Next]_vars => I'
    BY GlobalsLink, PanickedBoolean, LinkStep, GlobalsStep, Zenon
<1> QED
    BY <1>1, <1>2, PTL DEF Spec

\* A call through a pointer enters the function at that address, or the calling
\* module's private function of the same name, in every project: symex_call
\* goes from the address to a name and from the name to a definition, and
\* never meets an address whose name stands for something else.
THEOREM PointerCallsAlwaysEnter == Spec => []PointerCallsEnter
<1>1. GInv => PointerCallsEnter
    BY Zenon DEF GInv
<1> QED
    BY <1>1, GlobalsInvariance, PTL

\* The pointers in an initialised global are the meanings of the names in its
\* initializer, in every project: const_to_bv evaluates them all in one module,
\* whatever other initializers it evaluates on the way.
THEOREM ContentsAlwaysMeant == Spec => []ContentsMeant
<1>1. LInv /\ GInv => ContentsMeant
  <2> SUFFICES ASSUME LInv, GInv, NEW a \in Vars, IsInitial(a), NEW k \in DOMAIN defs[a].init
               PROVE  \/ mem[a][k] = Meaning(defs[a].init[k], defs[a].module)
                      \/ \E m \in Modules :
                             Meaning(defs[a].init[k], m) # Meaning(defs[a].init[k], defs[a].module)
      BY Zenon DEF ContentsMeant
  <2>1. PICK m \in Modules : mem[a][k] = Meaning(defs[a].init[k], m)
      BY Zenon DEF GInv, Path, PathOK, Contents, IsInitial
  <2> QED
      BY <2>1, Zenon
<1> QED
    BY <1>1, GlobalsInvariance, PTL

\* Lazy initialisation never undoes a store, in every project and whatever
\* other paths did in between: the flag of a global that was stored to is set,
\* and backtracking resets no flag.
THEOREM StoresAlwaysSurvive == Spec => []StoresSurvive
<1>1. GInv => StoresSurvive
    BY Zenon DEF GInv, Path, PathOK, Kept, StoresSurvive
<1> QED
    BY <1>1, GlobalsInvariance, PTL
=============================================================================

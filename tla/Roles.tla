------------------------------- MODULE Roles -------------------------------
(***************************************************************************)
(* The operator's key tool, scripts/roles.mjs, over the dotenv files it    *)
(* reads and rewrites (packages/config/src/env.ts decides which file wins) *)
(* and over the role table of the contract.  `separate` reconciles the     *)
(* copies of a key and mints a key for every slot that shares one;         *)
(* `apply` grants and revokes until the chain agrees with the files, one   *)
(* transaction at a time, and may die after any of them.  A key and its    *)
(* address are one number here.                                            *)
(***************************************************************************)
EXTENDS Integers, FiniteSets, SequencesExt

CONSTANTS
    RoleFile,      \* a `.env.<role>` file the tool rewrites and does not load
    FirstKey,      \* the one key of a deployment that started with one
    OtherKeys,     \* keys an operator may put in a file by hand
    NoKey,         \* no value
    NoRun,         \* `apply` is not running
    MaxEdits       \* hand edits of the files

VARIABLES
    keyVar,        \* by place and slot: <SLOT>_PRIVATE_KEY
    addressVar,    \* by place and slot: <SLOT>_ADDRESS
    holders,       \* _roles of the contract: the pairs <<role, account>>
    run,           \* the `apply` under way: whom it resolved, what is left
    minted, edits
rolesVars == <<keyVar, addressVar, holders, run, minted, edits>>

\* SLOTS, in order, and what is said of each.
SlotOrder == <<"ADMIN", "KEEPER", "ADJUDICATOR", "PAUSER", "STORAGE">>
Slots == Range(SlotOrder)
Rotatable == {"KEEPER", "ADJUDICATOR", "STORAGE"}
Keyed == Slots \ {"PAUSER"}
ContractRoles == Slots \ {"STORAGE"}

EnvFiles == {".env", ".env.local", RoleFile}
Places == EnvFiles \cup {"environment"}

\* env() after loadEnv(): the environment, then .env.local, then .env.
Loaded(vars, s) ==
    LET set == SelectSeq(<<"environment", ".env.local", ".env">>,
                         LAMBDA p : vars[p][s] # NoKey)
    IN  IF set = <<>> THEN NoKey ELSE vars[Head(set)][s]

\* resolveSlot: the slot's own key if there is one, else its declared address.
Address(s) ==
    IF s \in Keyed /\ Loaded(keyVar, s) # NoKey
    THEN Loaded(keyVar, s) ELSE Loaded(addressVar, s)

Held(r) == \E h \in holders : h[1] = r

RolesInit ==
    /\ keyVar = [p \in Places |-> [s \in Slots |->
                    IF p = ".env" /\ s \in Keyed THEN FirstKey ELSE NoKey]]
    /\ addressVar = [p \in Places |-> [s \in Slots |-> NoKey]]
    /\ holders = {<<r, FirstKey>> : r \in ContractRoles}
    /\ run = NoRun
    /\ minted = 0 /\ edits = 0

-----------------------------------------------------------------------------
\* An operator sets or removes one value, in a file or in the environment.
EditByHand(p, s, k) ==
    /\ run = NoRun /\ edits < MaxEdits
    /\ edits' = edits + 1
    /\ \/ /\ s \in Keyed
          /\ keyVar' = [keyVar EXCEPT ![p][s] = k]
          /\ UNCHANGED addressVar
       \/ /\ addressVar' = [addressVar EXCEPT ![p][s] = k]
          /\ UNCHANGED keyVar
    /\ UNCHANGED <<holders, run, minted>>

\* definitionsOf: a slot whose copies, in whatever file, do not agree.
Shadowed ==
    {s \in Keyed : Cardinality({keyVar[f][s] : f \in EnvFiles} \ {NoKey}) > 1}

\* collisions(): the groups of slots that resolve to one address.
SharedBy(k) == {s \in Slots : Address(s) = k}
SharedKeys ==
    {k \in {Address(s) : s \in Slots} \ {NoKey} : Cardinality(SharedBy(k)) > 1}

\* The slot of a group that keeps the key: one that does not rotate, else the first.
Keeps(group) ==
    LET inOrder == SelectSeq(SlotOrder, LAMBDA s : s \in group)
        fixed == SelectSeq(inOrder, LAMBDA s : s \notin Rotatable)
    IN  IF fixed = <<>> THEN Head(inOrder) ELSE Head(fixed)

Rotated ==
    UNION {(SharedBy(k) \cap Rotatable) \ {Keeps(SharedBy(k))} : k \in SharedKeys}

\* setKey: .env, and every other file that already mentions the variable.
SetWhere(vars, values) ==
    [p \in Places |-> [t \in Slots |->
        IF /\ t \in DOMAIN values
           /\ p = ".env" \/ (p \in EnvFiles /\ vars[p][t] # NoKey)
        THEN values[t] ELSE vars[p][t]]]

\* `separate`.  Reconciles the shadowed copies with .env's, then gives every
\* rotated slot a fresh key; refuses to write when .env has no copy, or when a
\* key to rotate is exported.
Separate ==
    /\ run = NoRun
    /\ Shadowed # {} \/ SharedKeys # {}
    /\ \A s \in Shadowed : keyVar[".env"][s] # NoKey
    /\ \A s \in Rotated : keyVar["environment"][s] = NoKey
    /\ LET order == SelectSeq(SlotOrder, LAMBDA s : s \in Rotated)
           fresh == [s \in Rotated |->
                       100 + minted + CHOOSE i \in DOMAIN order : order[i] = s]
           kept == [s \in Shadowed |-> keyVar[".env"][s]]
       IN  /\ keyVar' = SetWhere(keyVar, fresh @@ kept)
           /\ addressVar' = SetWhere(addressVar, fresh)
           /\ minted' = minted + Len(order)
    /\ UNCHANGED <<holders, run, edits>>

-----------------------------------------------------------------------------
\* The slots whose role is to be granted.
Pending ==
    {s \in ContractRoles : Address(s) # NoKey /\ <<s, Address(s)>> \notin holders}

\* currentHolders() against the files: who holds a role and is not configured.
Stale ==
    {h \in holders : /\ h[2] # Address(h[1])
                     /\ ~(h[1] = "PAUSER" /\ h[2] = Address("ADMIN"))}

\* An admin is revoked only once another one holds the role, and never itself.
Revocations(signer) ==
    {h \in Stale : h[1] = "ADMIN" =>
                     /\ <<"ADMIN", Address("ADMIN")>> \in holders
                     /\ h[2] # signer}

(* Mutant: the revocations are sent first. *)
Plan_RevokesFirst(signer) ==
    SetToSeq({[call |-> "revokeRole", role |-> h[1], account |-> h[2]] :
                    h \in Revocations(signer)})
    \o SetToSeq({[call |-> "grantRole", role |-> s, account |-> Address(s)] : s \in Pending})

\* Grants first, always.
Plan(signer) ==
    SetToSeq({[call |-> "grantRole", role |-> s, account |-> Address(s)] : s \in Pending})
    \o SetToSeq({[call |-> "revokeRole", role |-> h[1], account |-> h[2]] :
                    h \in Revocations(signer)})

\* `apply` up to its first transaction: signed by PRIVATE_KEY, which must be an admin.
Apply ==
    LET signer == Loaded(keyVar, "ADMIN") IN
    /\ run = NoRun
    /\ <<"ADMIN", signer>> \in holders
    /\ Plan(signer) # <<>>
    /\ run' = [signer |-> signer, address |-> [s \in Slots |-> Address(s)],
               todo |-> Plan(signer)]
    /\ UNCHANGED <<keyVar, addressVar, holders, minted, edits>>

\* One transaction of the plan; a reverted one throws and ends the run.
SendNext ==
    /\ run # NoRun
    /\ LET tx == Head(run.todo)
           granting == tx.call = "grantRole"
           selfRevoke == ~granting /\ tx.role = "ADMIN" /\ tx.account = run.signer
           mined == <<"ADMIN", run.signer>> \in holders /\ ~selfRevoke
       IN  /\ holders' = IF ~mined THEN holders
                         ELSE IF granting THEN holders \cup {<<tx.role, tx.account>>}
                         ELSE holders \ {<<tx.role, tx.account>>}
           /\ run' = IF mined /\ Len(run.todo) > 1
                     THEN [run EXCEPT !.todo = Tail(@)] ELSE NoRun
    /\ UNCHANGED <<keyVar, addressVar, minted, edits>>

\* The operator declines, an RPC call fails, or the process is killed.
ApplyStops ==
    /\ run # NoRun
    /\ run' = NoRun
    /\ UNCHANGED <<keyVar, addressVar, holders, minted, edits>>

RolesNext ==
    \/ \E p \in Places, s \in Slots, k \in OtherKeys \cup {NoKey} : EditByHand(p, s, k)
    \/ Separate
    \/ Apply
    \/ SendNext
    \/ ApplyStops

RolesSpec == RolesInit /\ [][RolesNext]_rolesVars

-----------------------------------------------------------------------------
(***************************************************************************)
(* "Grants first, always": no transaction of an `apply`, whatever edits,   *)
(* separations and half-finished runs came before it, takes a role from    *)
(* its last holder when the run has an address to give that role to.       *)
(***************************************************************************)
RolesStayHeld ==
    [][\A r \in ContractRoles :
           (run # NoRun /\ run.address[r] # NoKey /\ Held(r)) => Held(r)']_rolesVars
=============================================================================

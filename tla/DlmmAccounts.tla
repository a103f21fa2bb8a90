---------------------------- MODULE DlmmAccounts ----------------------------
(***************************************************************************)
(* meteora_m11.rs, meteora_m12.rs and meteora_contention.rs: the accounts  *)
(* a Meteora swap touches, and the v0 message that names them.             *)
(*                                                                         *)
(* An account key is a pair of a name and a number; only bin arrays need   *)
(* the number.  The bytes of a message are counted, and what they say is   *)
(* kept: the header's three counters, the static keys in order, the        *)
(* positions taken from the lookup table and the instruction's indices.    *)
(***************************************************************************)
EXTENDS Orderings, SequencesExt

CONSTANTS
    MaxAccounts,          \* accounts a message can index, 256
    MaxTransactionBytes   \* SOLANA_MAX_SERIALIZED_TRANSACTION_BYTES, 1232

ASSUME AccountsAssumption == MaxAccounts \in Nat

Key(name) == <<name, 0>>

ArrayKey(index) == <<"bin_array", index>>

DlmmProgram == Key("dlmm_program")

TokenPrograms == {Key("spl_token"), Key("token_2022")}

Elements(s) == {s[i] : i \in DOMAIN s}

IsUnique(s) == \A i, j \in DOMAIN s : s[i] = s[j] => i = j

(***************************************************************************)
(* The accounts of a swap                                                  *)
(***************************************************************************)
Planned(kind, key, signer, writable, derived) ==
    [kind |-> kind, key |-> key, signer |-> signer, writable |-> writable, derived |-> derived]

\* Where the program expects an optional account that is left out, it is named
\* itself.
ExtensionKey(snapshot) ==
    IF snapshot.extension THEN Key("bitmap_extension") ELSE DlmmProgram

\* build_fixed_accounts: sixteen, in the order of the instruction.
FixedAccounts(snapshot, provided) ==
    << Planned("LbPair", Key("lb_pair"), FALSE, TRUE, FALSE),
       Planned("BitmapExtension", ExtensionKey(snapshot), FALSE, TRUE, ~snapshot.extension),
       Planned("ReserveX", provided.reserve_x, FALSE, TRUE, FALSE),
       Planned("ReserveY", provided.reserve_y, FALSE, TRUE, FALSE),
       Planned("TokenXMint", Key("mint_x"), FALSE, FALSE, FALSE),
       Planned("TokenYMint", Key("mint_y"), FALSE, FALSE, FALSE),
       Planned("TokenXProgram", provided.token_x_program, FALSE, FALSE, FALSE),
       Planned("TokenYProgram", provided.token_y_program, FALSE, FALSE, FALSE),
       Planned("User", provided.user, TRUE, FALSE, FALSE),
       Planned("UserTokenIn", provided.user_token_in, FALSE, TRUE, FALSE),
       Planned("UserTokenOut", provided.user_token_out, FALSE, TRUE, FALSE),
       Planned("Oracle", provided.oracle, FALSE, TRUE, FALSE),
       Planned("HostFeeIn", DlmmProgram, FALSE, TRUE, TRUE),
       Planned("EventAuthority", Key("event_authority"), FALSE, FALSE, TRUE),
       Planned("Program", DlmmProgram, FALSE, FALSE, TRUE),
       Planned("MemoProgram", Key("memo_program"), FALSE, FALSE, TRUE) >>

\* validate_execution_provided_accounts; the mints of a snapshot differ here.
ProvidedFit(provided) ==
    /\ provided.reserve_x # provided.reserve_y
    /\ provided.user_token_in # provided.user_token_out
    /\ {provided.token_x_program, provided.token_y_program} \subseteq TokenPrograms

\* What the quote touched and the buffers behind it are the first targets of
\* the hydration plan, in its order, each of them hydrated.
RemainingFit(snapshot, targets, touched, buffers) ==
    /\ IsUnique(touched) /\ IsUnique(buffers)
    /\ Elements(touched) \cap Elements(buffers) = {}
    /\ IsPrefix(touched \o buffers, targets)
    /\ Elements(touched \o buffers) \subseteq DOMAIN snapshot.arrays

RemainingAccounts(touched, buffers) ==
    [i \in 1 .. Len(touched \o buffers) |->
        Planned(IF i <= Len(touched) THEN "QuoteRequired" ELSE "ExecutionBuffer",
                ArrayKey((touched \o buffers)[i]), FALSE, TRUE, FALSE)]

Sentinels == {"BitmapExtension", "HostFeeIn", "Program"}

\* duplicate_account_pair_is_intentional
MayRepeat(a, b) ==
    \/ {a.kind, b.kind} = {"TokenXProgram", "TokenYProgram"}
    \/ a.key = DlmmProgram /\ {a.kind, b.kind} \subseteq Sentinels /\ a.derived /\ b.derived

DuplicatesFit(accounts) ==
    \A i, j \in DOMAIN accounts :
        i < j /\ accounts[i].key = accounts[j].key => MayRepeat(accounts[i], accounts[j])

\* Keys in order of their first occurrence.
FirstOccurrences(keys) ==
    Picked(keys, {i \in DOMAIN keys : \A j \in 1 .. i - 1 : keys[j] # keys[i]})

Keys(accounts) == [i \in DOMAIN accounts |-> accounts[i].key]

\* Mutant: only what the quote needs is contended for, its buffers are forgotten.
ContentionWithoutBuffers(accounts) ==
    FirstOccurrences(Keys(Picked(accounts,
        {i \in DOMAIN accounts : /\ accounts[i].writable /\ accounts[i].key # DlmmProgram
                                 /\ accounts[i].kind # "ExecutionBuffer"})))

ContentionWritable(accounts) ==
    FirstOccurrences(Keys(Picked(accounts,
        {i \in DOMAIN accounts : accounts[i].writable /\ accounts[i].key # DlmmProgram})))

\* meteora_execution_account_plan, for a quote that is a full fill.
ExecutionAccountPlan(snapshot, plan, touched, swapForY, provided, buffers) ==
    LET ordered == FixedAccounts(snapshot, provided) \o RemainingAccounts(touched, buffers)
    IN  IF /\ plan.swap_for_y = swapForY
           /\ plan.source = snapshot.source
           /\ ProvidedFit(provided)
           /\ RemainingFit(snapshot, plan.targets, touched, buffers)
           /\ DuplicatesFit(ordered)
        THEN {[source |-> snapshot.source, ordered |-> ordered,
               contention |-> ContentionWritable(ordered)]}
        ELSE {}

\* meteora_quote_contention_footprint derives what a quote alone will lock.
QuoteFootprint(snapshot, touched) ==
    <<Key("lb_pair")>>
    \o (IF snapshot.extension THEN <<Key("bitmap_extension")>> ELSE <<>>)
    \o <<Key("reserve_x"), Key("reserve_y"), Key("oracle")>>
    \o [i \in DOMAIN touched |-> ArrayKey(touched[i])]

QuoteFootprints(snapshot, touched) ==
    IF touched # <<>> /\ Elements(touched) \subseteq DOMAIN snapshot.arrays
       /\ IsUnique(QuoteFootprint(snapshot, touched))
    THEN {QuoteFootprint(snapshot, touched)}
    ELSE {}

(***************************************************************************)
(* The message                                                             *)
(***************************************************************************)
\* Every account once, with the privileges of all its mentions; the user pays.
UniqueAccounts(ordered) ==
    LET keys == FirstOccurrences(Keys(ordered))
        Mentions(key) == {a \in Elements(ordered) : a.key = key}
    IN  [i \in DOMAIN keys |->
           [key |-> keys[i],
            signer |-> \E a \in Mentions(keys[i]) : a.signer \/ a.kind = "User",
            writable |-> \E a \in Mentions(keys[i]) : a.writable \/ a.kind = "User",
            invoked |-> \E a \in Mentions(keys[i]) : a.kind = "Program"]]

AccountClass(accounts, signer, writable) ==
    Picked(accounts, {i \in DOMAIN accounts : accounts[i].signer = signer
                                              /\ accounts[i].writable = writable})

\* Mutant: the accounts that are only read come before those that are written.
ReadonlyFirst(accounts) ==
    AccountClass(accounts, TRUE, TRUE) \o AccountClass(accounts, TRUE, FALSE)
    \o AccountClass(accounts, FALSE, FALSE) \o AccountClass(accounts, FALSE, TRUE)

CanonicalOrder(accounts) ==
    AccountClass(accounts, TRUE, TRUE) \o AccountClass(accounts, TRUE, FALSE)
    \o AccountClass(accounts, FALSE, TRUE) \o AccountClass(accounts, FALSE, FALSE)

\* What a lookup table lists is loaded through it, except signers and the
\* program that is called.
IsLoaded(account, tables) ==
    /\ ~account.signer /\ ~account.invoked
    /\ \E table \in tables : account.key \in Elements(table)

TableFits(tables) == \A table \in tables : Len(table) <= MaxAccounts /\ IsUnique(table)

TablePositions(keys, tables) ==
    [i \in DOMAIN keys |->
        CHOOSE p \in 1 .. MaxAccounts :
            \E table \in tables : p \in DOMAIN table /\ table[p] = keys[i]]

ShortvecBytes(n) == IF n < 128 THEN 1 ELSE 2

\* Bytes of the transaction: 64 for a signature, 32 for a key or the blockhash,
\* 28 for the data of swap2.
TransactionBytes(signatures, static, indices, writable, readonly) ==
    LET loaded == writable + readonly
    IN  ShortvecBytes(signatures) + 64 * signatures
        + 4 + ShortvecBytes(static) + 32 * static + 32
        + 1 + 1 + ShortvecBytes(indices) + indices + ShortvecBytes(28) + 28
        + 1 + IF loaded = 0 THEN 0
              ELSE 32 + ShortvecBytes(writable) + writable + ShortvecBytes(readonly) + readonly

IndexIn(keys, key) == CHOOSE i \in DOMAIN keys : keys[i] = key

\* The positions of a message's accounts by where they are named and how they are used.
StaticPositions(accounts, tables) == {i \in DOMAIN accounts : ~IsLoaded(accounts[i], tables)}

LoadedPositions(accounts, tables, writable) ==
    {i \in DOMAIN accounts : IsLoaded(accounts[i], tables) /\ accounts[i].writable = writable}

SignerPositions(accounts) == {i \in DOMAIN accounts : accounts[i].signer}

ReadonlyPositions(accounts) == {i \in DOMAIN accounts : ~accounts[i].writable}

\* compile_meteora_swap2_v0, for a plan of the shape ExecutionAccountPlan gives
\* it; tables holds the lookup table, if there is one.
CompileSwap2(plan, tables) ==
    LET canonical == CanonicalOrder(UniqueAccounts(plan.ordered))
        static == Picked(canonical, StaticPositions(canonical, tables))
        writable == Keys(Picked(canonical, LoadedPositions(canonical, tables, TRUE)))
        readonly == Keys(Picked(canonical, LoadedPositions(canonical, tables, FALSE)))
        combined == Keys(static) \o writable \o readonly
        signers == SignerPositions(static)
        unwritten == ReadonlyPositions(static)
        signatures == Cardinality(signers)
        bytes == TransactionBytes(signatures, Len(static), Len(plan.ordered),
                                  Len(writable), Len(readonly))
    IN  IF /\ TableFits(tables)
           /\ Len(plan.ordered) <= MaxAccounts /\ Len(combined) <= MaxAccounts
           /\ bytes <= MaxTransactionBytes
        THEN {[required_signatures |-> signatures,
               readonly_signed |-> Cardinality(unwritten \cap signers),
               readonly_unsigned |-> Cardinality(unwritten \ signers),
               static_keys |-> Keys(static),
               writable_indexes |-> TablePositions(writable, tables),
               readonly_indexes |-> TablePositions(readonly, tables),
               program |-> IndexIn(combined, DlmmProgram),
               accounts |-> [i \in DOMAIN plan.ordered |->
                                IndexIn(combined, plan.ordered[i].key)],
               min_context_slot |-> plan.source.slot]}
        ELSE {}
=============================================================================

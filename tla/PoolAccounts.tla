---------------------------- MODULE PoolAccounts ----------------------------
(***************************************************************************)
(* Accounts as a reader of the chain gets them.  A world is the chain at   *)
(* one slot: a function from the keys of the accounts there are to the     *)
(* accounts.  The layout of an account stands for its length and its       *)
(* discriminator; the bytes behind it are its other fields.  What may be   *)
(* missing or refused is a set of at most one element.                     *)
(***************************************************************************)
EXTENDS Integers, Sequences, FiniteSets

CONSTANTS
    MaxU64,     \* the largest value of a u64
    MaxFeeBps   \* 10000 basis points are the whole amount

ASSUME WidthAssumption == MaxU64 \in Nat /\ MaxFeeBps \in Nat

\* A public key: pool, mint or vault `n`, or the array of a pool with index n.
Key(what, n) == [what |-> what, n |-> n]

Sides == {1, 2}

TokenPrograms == {"spl_token", "token_2022"}

Lookup(world, key) == {world[k] : k \in DOMAIN world \cap {key}}

\* getMultipleAccounts answers for all keys from one slot.
Reply(world, slot, keys) ==
    [slot |-> slot, accounts |-> [i \in DOMAIN keys |-> Lookup(world, keys[i])]]

NoneMissing(reply) == \A i \in DOMAIN reply.accounts : reply.accounts[i] # {}

Owned(account, program) == {a \in account : a.owner = program}

Decoded(account, program, layout) == {a \in Owned(account, program) : a.layout = layout}

\* The extensions of a Token-2022 mint up to the first that is uninitialized.
ExtensionsRead(mint) ==
    {i \in DOMAIN mint.extensions : \A j \in 1 .. i : mint.extensions[j] # "Uninitialized"}

NoneTwice(mint) ==
    \A i, j \in ExtensionsRead(mint) : mint.extensions[i] = mint.extensions[j] => i = j

ExtendedBy(mint, names) ==
    NoneTwice(mint) /\ \A i \in ExtensionsRead(mint) : mint.extensions[i] \in names

\* ensure_supported_token_2022_mint_extensions; a mint of the SPL token program
\* has no extensions.
SupportedMint(mint) ==
    mint.owner = "token_2022" =>
        /\ mint.layout = "Mint"
        /\ mint.initialized
        /\ ExtendedBy(mint, {"MetadataPointer", "TokenMetadata"})
=============================================================================

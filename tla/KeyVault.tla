------------------------------ MODULE KeyVault ------------------------------
(***************************************************************************)
(* The providers' API keys: in memory (config.CurrentConfig), in the       *)
(* encrypted vault of the database (internal/service/keyvault.go) and, for *)
(* a first start only, in the environment and the .env file.  The panel's  *)
(* handlers (internal/service/web_admin.go) change the memory first and    *)
(* write the vault from it; no lock orders two of them.                    *)
(*                                                                         *)
(* A key is a sequence of atoms: pasting "a,b" stores one key of two       *)
(* atoms, and reading a pool back splits at every comma.  What is sealed   *)
(* with a machine key opens with that key only; the file that holds it may *)
(* be gone at a restart, and a new key is made.  Database errors are not   *)
(* modelled.                                                               *)
(***************************************************************************)
EXTENDS Integers, SequencesExt

CONSTANTS Providers,  \* those with a key pool
          Pasted,     \* keys an administrator may add, sequences of atoms
          EnvSingles, EnvPools,  \* what <PROVIDER>_API_KEY and _KEYS may hold
          NoKey,      \* the empty key
          Panels,     \* panel request goroutines
          MaxPool,    \* bound: keys in a pool
          MaxLosses,  \* bound: times the machine key's file gets lost
          EnvOnHost   \* the variables are the host's, not those of .env

\* What keys are made of.
Alphabet == UNION {ToSet(k) : k \in Pasted \cup EnvSingles \cup EnvPools}

ASSUME KeyVaultAssumption ==
    /\ NoKey = <<>>
    /\ NoKey \notin Pasted \cup Providers
    /\ Pasted \cup EnvSingles \cup EnvPools \subseteq Seq(Alphabet)
    /\ MaxPool \in Nat /\ MaxLosses \in Nat
    /\ EnvOnHost \in BOOLEAN

VARIABLES env,     \* per provider: single and pool variables
          pools, primary,  \* config.CurrentConfig
          machineKey,  \* the key of storage/.masterkey, counted from 0
          vault,   \* SystemConfig.EncryptedKeys: what is sealed, and with which key
          panel,  \* per goroutine: next step and what it has read
          kept     \* per provider: keys the administrator relies on

memory == <<pools, primary>>
vaultVars == <<env, memory, machineKey, vault, panel, kept>>

NoRequest == [pc |-> "idle", provider |-> NoKey, key |-> NoKey, index |-> 0,
               read |-> <<>>, snapshot |-> <<>>]
Awaits(t, step) == panel[t].pc = step
Go(t, step) == panel' = [panel EXCEPT ![t].pc = step]
Reply(t) == panel' = [panel EXCEPT ![t] = NoRequest]
AtRest == \A t \in Panels : Awaits(t, "idle")

-----------------------------------------------------------------------------
(* Boot *)

FirstKey(pool) == IF pool = <<>> THEN NoKey ELSE Head(pool)

\* strings.Join, and ParseKeyPool of what it made.
Join(pool) == FlattenSeq(pool)
ParseKeyPool(joined) == [i \in 1..Len(joined) |-> <<joined[i]>>]

\* The single variable goes first, whole, if the pool does not hold it.
BuildKeyPool(e) ==
    LET pool == ParseKeyPool(e.pool) IN
    IF e.single = NoKey \/ Contains(pool, e.single) THEN pool
    ELSE <<e.single>> \o pool

EnsurePrimaryInPool(pool, first) ==
    IF first = NoKey \/ Contains(pool, first) THEN pool ELSE <<first>> \o pool

\* What the keys of a pool are made of.
Atoms(pool) == UNION {ToSet(pool[i]) : i \in 1..Len(pool)}

EmptyVault == [sealed |-> 0,
               keys |-> [p \in Providers |-> [primary |-> NoKey, pool |-> <<>>]]]
NoEnv == [single |-> NoKey, pool |-> <<>>]

\* LoadConfig, then LoadEncryptedKeysIntoConfig: what the vault does not hold
\* stays as the environment has it.
Load(e, v) ==
    LET envPool == BuildKeyPool(e)
        first == IF v.primary = NoKey THEN FirstKey(envPool) ELSE v.primary
        pool == IF v.pool = <<>> THEN envPool ELSE ParseKeyPool(v.pool)
    IN [primary |-> first, pool |-> EnsurePrimaryInPool(pool, first)]

\* A vault that does not open leaves everything to the environment.
LoadedWith(key, p) ==
    Load(env[p], IF vault.sealed = key THEN vault.keys[p] ELSE EmptyVault.keys[p])
Loaded(p) == LoadedWith(machineKey, p)

\* The process may stop at any moment.  LoadOrCreateMachineKey makes a new key
\* if the file is gone; nobody can rely then on what only the vault held.
Reboot ==
    /\ \/ UNCHANGED machineKey
       \/ machineKey < MaxLosses /\ machineKey' = machineKey + 1
    /\ pools' = [p \in Providers |-> LoadedWith(machineKey', p).pool]
    /\ primary' = [p \in Providers |-> LoadedWith(machineKey', p).primary]
    /\ panel' = [t \in Panels |-> NoRequest]
    /\ kept' = IF machineKey' = machineKey THEN kept
               ELSE [p \in Providers |-> kept[p] \cap Atoms(pools'[p])]
    /\ UNCHANGED <<env, vault>>

-----------------------------------------------------------------------------
(* handlePostAddKey and handlePostRemoveKey *)

\* A request that has read the pool of p and will change it.
Editing(step, p, k, i) == [pc |-> step, provider |-> p, key |-> k, index |-> i,
                           read |-> pools[p], snapshot |-> <<>>]

RequestAdd(t, p, k) ==
    /\ Awaits(t, "idle")
    /\ Len(pools[p]) < MaxPool
    /\ panel' = [panel EXCEPT ![t] = Editing("add", p, k, 0)]
    /\ UNCHANGED <<env, machineKey, memory, vault, kept>>

AddKey(t) ==
    /\ Awaits(t, "add")
    /\ LET p == panel[t].provider
           old == panel[t].read
       IN pools' = [pools EXCEPT ![p] =
                        IF Contains(old, panel[t].key) THEN @
                        ELSE Append(old, panel[t].key)]
    /\ Go(t, "first")
    /\ UNCHANGED <<env, machineKey, primary, vault, kept>>

RequestRemove(t, p, i) ==
    /\ Awaits(t, "idle")
    /\ i \in 1..Len(pools[p])
    /\ panel' = [panel EXCEPT ![t] = Editing("remove", p, NoKey, i)]
    /\ kept' = [kept EXCEPT ![p] = @ \ ToSet(pools[p][i])]
    /\ UNCHANGED <<env, machineKey, memory, vault>>

RemoveKey(t) ==
    /\ Awaits(t, "remove")
    /\ pools' = [pools EXCEPT ![panel[t].provider] =
                                  RemoveAt(panel[t].read, panel[t].index)]
    /\ Go(t, "first")
    /\ UNCHANGED <<env, machineKey, primary, vault, kept>>

\* Both read the head of the pool for the primary key.  (An addition that
\* finds the pool emptied by then panics, and its request with it.)
First(t) ==
    /\ Awaits(t, "first")
    /\ LET pool == pools[panel[t].provider] IN
       IF pool = <<>> /\ panel[t].key # NoKey
       THEN Reply(t)
       ELSE panel' = [panel EXCEPT ![t].pc = "primary", ![t].read = <<FirstKey(pool)>>]
    /\ UNCHANGED <<env, machineKey, memory, vault, kept>>

\* Rejected: a primary key that is set stays.
SetPrimaryOnce(t) ==
    /\ Awaits(t, "primary")
    /\ primary' = [primary EXCEPT ![panel[t].provider] =
                                   IF @ = NoKey THEN panel[t].read[1] ELSE @]
    /\ Go(t, "snapshot")
    /\ UNCHANGED <<env, machineKey, pools, vault, kept>>

SetPrimary(t) ==
    /\ Awaits(t, "primary")
    /\ primary' = [primary EXCEPT ![panel[t].provider] = panel[t].read[1]]
    /\ Go(t, "snapshot")
    /\ UNCHANGED <<env, machineKey, pools, vault, kept>>

-----------------------------------------------------------------------------
(* persistEncryptedKeys, and handlePostUpdateConfig which repeats it *)

\* Rejected: saving the settings writes the .env file only.
RequestUpdateEnvOnly(t) ==
    /\ Awaits(t, "idle")
    /\ panel' = [panel EXCEPT ![t].pc = "env"]
    /\ UNCHANGED <<env, machineKey, memory, vault, kept>>

RequestUpdateConfig(t) ==
    /\ Awaits(t, "idle")
    /\ panel' = [panel EXCEPT ![t].pc = "snapshot"]
    /\ UNCHANGED <<env, machineKey, memory, vault, kept>>

\* Rejected: the pools are left out of the vault.
SnapshotPrimaryOnly(t) ==
    /\ Awaits(t, "snapshot")
    /\ panel' = [panel EXCEPT ![t].pc = "save",
            ![t].snapshot = [p \in Providers |->
                               [primary |-> primary[p], pool |-> primary[p]]]]
    /\ UNCHANGED <<env, machineKey, memory, vault, kept>>

\* The whole key set, as the memory holds it now.
Snapshot(t) ==
    /\ Awaits(t, "snapshot")
    /\ panel' = [panel EXCEPT ![t].pc = "save",
            ![t].snapshot = [p \in Providers |->
                               [primary |-> primary[p], pool |-> Join(pools[p])]]]
    /\ UNCHANGED <<env, machineKey, memory, vault, kept>>

IsUpdate(t) == panel[t].provider = NoKey

\* An addition that is saved is acknowledged.
Save(t) ==
    /\ Awaits(t, "save")
    /\ vault' = [sealed |-> machineKey, keys |-> panel[t].snapshot]
    /\ kept' = IF panel[t].key = NoKey THEN kept
               ELSE [kept EXCEPT ![panel[t].provider] = @ \cup ToSet(panel[t].key)]
    /\ IF IsUpdate(t) THEN Go(t, "env") ELSE Reply(t)
    /\ UNCHANGED <<env, machineKey, memory>>

\* saveConfigToEnv writes the .env file anew, without keys.
WriteEnv(t) ==
    /\ Awaits(t, "env")
    /\ env' = IF EnvOnHost THEN env ELSE [p \in Providers |-> NoEnv]
    /\ Reply(t)
    /\ UNCHANGED <<machineKey, memory, vault, kept>>

Handler(t) == \/ AddKey(t) \/ RemoveKey(t) \/ First(t) \/ SetPrimary(t)
              \/ Snapshot(t) \/ Save(t) \/ WriteEnv(t)

PanelRequest(t) ==
    \/ \E p \in Providers : \/ \E k \in Pasted : RequestAdd(t, p, k)
                            \/ \E i \in 1..Len(pools[p]) : RequestRemove(t, p, i)
    \/ RequestUpdateConfig(t)

-----------------------------------------------------------------------------
VaultInit == /\ env \in [Providers -> [single : EnvSingles, pool : EnvPools]]
        /\ machineKey = 0
        /\ vault = EmptyVault
        /\ pools = [p \in Providers |-> Loaded(p).pool]
        /\ primary = [p \in Providers |-> Loaded(p).primary]
        /\ panel = [t \in Panels |-> NoRequest]
        /\ kept = [p \in Providers |-> ToSet(env[p].single) \cup ToSet(env[p].pool)]

VaultNext == \/ \E t \in Panels : PanelRequest(t) \/ Handler(t)
        \/ Reboot

VaultSpec == VaultInit /\ [][VaultNext]_vaultVars

-----------------------------------------------------------------------------
VaultTypeOK == machineKey \in 0..MaxLosses /\ vault.sealed \in 0..machineKey /\ \A p \in Providers :
    /\ Len(pools[p]) <= MaxPool + 1
    /\ primary[p] \in {NoKey} \cup Pasted \cup EnvSingles
                      \cup {<<a>> : a \in kept[p] \cup Atoms(pools[p])}
    /\ ToSet(vault.keys[p].pool) \subseteq Alphabet
    /\ kept[p] \subseteq Alphabet

\* The primary key is the head of its pool whenever no request is under way
\* ("primary == pool[0]"), after any restart too.
PrimaryFirst == AtRest => \A p \in Providers : primary[p] = FirstKey(pools[p])

\* Whenever no request is under way, a restart would load the very keys that
\* are in memory now, in their order ("so a restart reloads exactly what the
\* panel shows"), but for a provider whose last key has been removed: the
\* environment is asked again then.
Reloads(p) == Loaded(p).pool = pools[p] /\ Loaded(p).primary = primary[p]
RestartReloads == AtRest => \A p \in Providers : pools[p] = <<>> \/ Reloads(p)

\* A key the administrator relies on - one found in .env at first start, or
\* one whose addition was acknowledged and never taken back - is there after a
\* restart at any moment ("migrated to the encrypted vault as soon as you save
\* in the panel").
NoKeyLost == \A p \in Providers : kept[p] \subseteq Atoms(Loaded(p).pool)

=============================================================================

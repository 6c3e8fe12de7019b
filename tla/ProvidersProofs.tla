----------------------------- MODULE ProvidersProofs -----------------------------
(***************************************************************************)
(* Proofs about Providers, for all providers, models, numbers of keys,     *)
(* hosts and failures of the preferences file.                             *)
(***************************************************************************)
EXTENDS Providers, TLAPS

\* A key that may be given to provider p.
OwnKey(p, k) == k = NoKey \/ (p \in NeedsKey /\ k \in KeysOf(p))

\* The places that hold a key for every provider.
KeyTable == {f \in [NeedsKey -> Keys] : \A p \in NeedsKey : OwnKey(p, f[p])}

\* A client or a request: for a known provider, with a key of its own.
OwnClient == {c \in [provider : Known, model : Models, key : Keys] : OwnKey(c.provider, c.key)}

\* A key is found under the name of its owner only, in all places.
KeysOwn ==
    /\ config.keys \in KeyTable
    /\ env \in KeyTable
    /\ saved.keys \in KeyTable
    /\ client \in OwnClient \cup {NoChoice}
    /\ request \in OwnClient \cup {NoChoice}
    /\ confirmed \in OwnClient \cup {NoChoice}

\* What was chosen is complete: a provider that needs a key has one, and one that
\* needs none has none.
Complete(c) == c.provider \in NeedsKey <=> c.key # NoKey

\* A request that is out is complete.
RequestComplete == pc \in {"sent", "handled"} => request \in OwnClient /\ Complete(request)

\* The file holds the last choice that was confirmed.
ChoiceOnFile ==
    confirmed # NoChoice =>
        /\ Complete(confirmed)
        /\ saved.provider = confirmed.provider
        /\ saved.model = confirmed.model
        /\ confirmed.provider \in NeedsKey => saved.keys[confirmed.provider] = confirmed.key

\* The inductive invariant.
ChoiceInv == TypeOK /\ KeysOwn /\ RequestComplete /\ ChoiceOnFile

-----------------------------------------------------------------------------
\* A table stays one when a provider gets a key of its own, or none.
LEMMA TablesOfKeys ==
    ASSUME NEW f \in KeyTable, NEW p \in NeedsKey, NEW k \in KeysOf(p) \cup {NoKey}
    PROVE  [f EXCEPT ![p] = k] \in KeyTable
  BY DEF KeyTable, OwnKey, Keys

\* A key of a provider is a key, says whose it is, and is not the missing one.
LEMMA KeysAreTyped ==
    ASSUME NEW p \in NeedsKey, NEW k \in KeysOf(p) PROVE k \in Keys /\ k.of = p /\ k # NoKey
  <1> k \in Keys /\ k.of = p
    BY DEF KeysOf, Keys
  <1> p # NoProvider
    BY ProvidersAssumption
  <1> QED BY DEF NoKey

\* The key a table has for a provider is one of its own.
LEMMA KeyForIsOwn ==
    ASSUME NEW c, c.keys \in KeyTable, NEW p
    PROVE  KeyFor(c, p) \in Keys /\ OwnKey(p, KeyFor(c, p))
  BY DEF KeyFor, KeyTable, OwnKey, Keys

\* No keys at all are a table, too.
LEMMA NoKeysIsTable == NoKeys \in KeyTable
  BY DEF NoKeys, KeyTable, OwnKey, Keys

\* The records that stand for no file and no choice have the types of one.
LEMMA NothingIsTyped == NoFile.model \in Models /\ NoChoice.model \in Models /\ NoKey \in Keys
  BY ProvidersAssumption DEF NoFile, NoChoice, Keys

\* What a start or a save gets from the file: its contents, or nothing.
LEMMA LoadedKeys ==
    ASSUME ChoiceInv, NEW onFile, Load(onFile)
    PROVE  /\ onFile \in [provider : Known \cup {NoProvider}, model : Models, keys : [NeedsKey -> Keys]]
           /\ onFile.keys \in KeyTable
           /\ fault' \in {"none", "read"}
           /\ fault' # "read" => onFile = saved
  <1>1. NoFile \in [provider : Known \cup {NoProvider}, model : Models, keys : [NeedsKey -> Keys]]
        /\ NoFile.keys \in KeyTable
    BY NoKeysIsTable, NothingIsTyped DEF NoFile, KeyTable
  <1> QED BY <1>1 DEF Load, ChoiceInv, TypeOK, KeysOwn

\* The invariant holds of a machine the program was never started on.
LEMMA InitChoice == Init => ChoiceInv
  <1> SUFFICES ASSUME Init PROVE ChoiceInv
    OBVIOUS
  <1> USE NoKeysIsTable, NothingIsTyped, ProvidersAssumption
  <1>1. TypeOK
    BY DEF Init, TypeOK, NoFile, NoChoice, KeyTable
  <1>2. KeysOwn
    BY DEF Init, KeysOwn, NoFile, KeyTable
  <1>3. RequestComplete /\ ChoiceOnFile
    BY DEF Init, RequestComplete, ChoiceOnFile
  <1> QED BY <1>1, <1>2, <1>3 DEF ChoiceInv
-----------------------------------------------------------------------------
(***************************************************************************)
(* The steps                                                               *)
(***************************************************************************)

\* What a start reads from the shell and from the file.
LEMMA TablesAtStart ==
    ASSUME NEW exported \in Exports, NEW f \in KeyTable
    PROVE  Applied(exported, f) \in KeyTable /\ ShellFirst(exported, f) \in KeyTable
  <1>1. exported \in KeyTable
    <2> SUFFICES ASSUME NEW p \in NeedsKey, exported[p] # NoKey
                 PROVE  OwnKey(p, exported[p])
      BY DEF Exports, KeyTable, OwnKey
    <2>1. exported[p].of = p /\ exported[p] \in Keys
      BY DEF Exports
    <2>2. PICK q \in NeedsKey : exported[p] \in KeysOf(q)
      BY <2>1 DEF Keys
    <2>3. q = p
      BY <2>1, <2>2, KeysAreTyped
    <2> QED BY <2>2, <2>3 DEF OwnKey
  <1> QED BY <1>1 DEF Applied, ShellFirst, KeyTable

\* A start: the file and the shell are merged provider by provider.
LEMMA BootChoice ==
    ASSUME ChoiceInv, NEW p \in Known, NEW m \in Models, NEW exported \in Exports, NEW onFile,
           Boot(p, m, exported, onFile)
    PROVE  ChoiceInv'
  <1>0. /\ onFile \in [provider : Known \cup {NoProvider}, model : Models, keys : [NeedsKey -> Keys]]
        /\ onFile.keys \in KeyTable
        /\ fault' \in {"none", "read"}
    BY LoadedKeys DEF Boot
  <1> USE DEF Boot, ChoiceInv
  <1>1. config'.keys \in KeyTable /\ env' \in KeyTable
    BY <1>0, TablesAtStart
  <1>2. config' \in [provider : Known, model : Models, keys : [NeedsKey -> Keys]]
    BY <1>0, <1>1 DEF KeyTable
  <1>3. client' \in OwnClient
    BY <1>1, <1>2, KeyForIsOwn DEF OwnClient
  <1>4. TypeOK'
    BY <1>0, <1>1, <1>2, <1>3 DEF TypeOK, KeyTable, OwnClient, Client, Providers
  <1>5. KeysOwn'
    BY <1>1, <1>3 DEF KeysOwn
  <1>6. RequestComplete' /\ ChoiceOnFile'
    BY DEF RequestComplete, ChoiceOnFile, Complete
  <1> QED BY <1>4, <1>5, <1>6

\* The key the selector takes belongs to the provider it was asked for.
LEMMA TakenKey ==
    ASSUME ChoiceInv, NEW p \in Known, NEW typed \in KeysOf(p) \cup {NoKey}, TakeKey(p, typed)
    PROVE  /\ config' \in [provider : Providers \cup {NoProvider}, model : Models, keys : KeyTable]
           /\ config'.provider = config.provider /\ config'.model = config.model
           /\ env' \in KeyTable
           /\ p \in NeedsKey => config'.keys[p] # NoKey
  <1>1. config \in [provider : Providers \cup {NoProvider}, model : Models, keys : KeyTable]
    BY DEF ChoiceInv, TypeOK, KeysOwn
  <1>2. env \in KeyTable
    BY DEF ChoiceInv, KeysOwn
  <1>3. CASE p \notin NeedsKey
    BY <1>1, <1>2, <1>3 DEF TakeKey
  <1>4. CASE p \in NeedsKey
    <2> DEFINE key == ApiKey(p, typed)
    <2>1. key \in KeysOf(p) \cup {NoKey} /\ key # NoKey
      BY <1>2, <1>4 DEF TakeKey, HasKey, ApiKey, KeyTable, OwnKey
    <2> HIDE DEF key
    <2>2. [env EXCEPT ![p] = key] \in KeyTable /\ [config.keys EXCEPT ![p] = key] \in KeyTable
      BY <1>1, <1>2, <1>4, <2>1, TablesOfKeys
    <2>3. config' = [config EXCEPT !.keys = [config.keys EXCEPT ![p] = key]]
          /\ env' = [env EXCEPT ![p] = key]
      BY <1>1, <1>4 DEF TakeKey, key
    <2>4. [config.keys EXCEPT ![p] = key][p] = key
      BY <1>1, <1>4 DEF KeyTable
    <2> QED BY <1>1, <2>1, <2>2, <2>3, <2>4
  <1> QED BY <1>3, <1>4

\* The model in use is chosen again.
LEMMA KeepModelChoice ==
    ASSUME ChoiceInv, NEW p \in Known, NEW m \in Models, NEW typed \in KeysOf(p) \cup {NoKey},
           KeepModel(p, m, typed)
    PROVE  ChoiceInv'
  <1>1. TakeKey(p, typed)
    BY DEF KeepModel
  <1>2. TypeOK' /\ KeysOwn'
    BY <1>1, TakenKey DEF KeepModel, ChoiceInv, TypeOK, KeysOwn, KeyTable
  <1>3. RequestComplete' /\ ChoiceOnFile'
    BY DEF KeepModel, ChoiceInv, RequestComplete, ChoiceOnFile, Complete
  <1> QED BY <1>2, <1>3 DEF ChoiceInv

\* Another model is chosen: the request that goes out is complete.
LEMMA SendRequestChoice ==
    ASSUME ChoiceInv, NEW p \in Known, NEW m \in Models, NEW typed \in KeysOf(p) \cup {NoKey},
           SendRequest(p, m, typed)
    PROVE  ChoiceInv'
  <1>1. TakeKey(p, typed)
    BY DEF SendRequest
  <1>2. config'.keys \in KeyTable /\ (p \in NeedsKey => config'.keys[p] # NoKey)
    BY <1>1, TakenKey
  <1>3. request' \in OwnClient /\ Complete(request')
    BY <1>2, KeyForIsOwn DEF SendRequest, OwnClient, Complete, KeyFor
  <1>4. TypeOK'
    BY <1>1, <1>3, TakenKey DEF SendRequest, ChoiceInv, TypeOK, KeyTable, OwnClient, Client
  <1>5. KeysOwn'
    BY <1>1, <1>3, TakenKey DEF SendRequest, ChoiceInv, KeysOwn
  <1>6. RequestComplete' /\ ChoiceOnFile'
    BY <1>3 DEF SendRequest, ChoiceInv, RequestComplete, ChoiceOnFile, Complete
  <1> QED BY <1>4, <1>5, <1>6 DEF ChoiceInv

\* The handler of a reconfigure request, for a key of the provider or none.
LEMMA ReconfiguredKeys ==
    ASSUME ChoiceInv, NEW p \in Providers, NEW m \in Models, NEW key \in Keys, OwnKey(p, key),
           Reconfigured(p, m, key)
    PROVE  /\ config' \in [provider : Providers, model : Models, keys : KeyTable]
           /\ client' \in OwnClient \cup {NoChoice}
  <1>1. config.keys \in KeyTable /\ client \in OwnClient \cup {NoChoice}
    BY DEF ChoiceInv, KeysOwn
  <1>2. config'.keys \in KeyTable
    BY <1>1, TablesOfKeys DEF Reconfigured, OwnKey
  <1>3. NewClient(p, m, key) \in OwnClient \cup {NoChoice}
    BY <1>1 DEF NewClient, OwnClient, OwnKey, Keys
  <1> QED BY <1>2, <1>3 DEF Reconfigured

\* The request of the TUI is handled.
LEMMA HandleRequestChoice ==
    ASSUME ChoiceInv, HandleRequest PROVE ChoiceInv'
  <1>1. request \in OwnClient /\ Complete(request)
    BY DEF HandleRequest, ChoiceInv, RequestComplete
  <1>2. /\ config' \in [provider : Providers, model : Models, keys : KeyTable]
        /\ client' \in OwnClient \cup {NoChoice}
    BY <1>1, ReconfiguredKeys DEF HandleRequest, OwnClient, Providers
  <1>3. TypeOK'
    BY <1>2 DEF HandleRequest, ChoiceInv, TypeOK, KeyTable, OwnClient, Client
  <1>4. KeysOwn'
    BY <1>2 DEF HandleRequest, ChoiceInv, KeysOwn
  <1>5. RequestComplete' /\ ChoiceOnFile'
    BY <1>1 DEF HandleRequest, ChoiceInv, RequestComplete, ChoiceOnFile, Complete
  <1> QED BY <1>3, <1>4, <1>5 DEF ChoiceInv

\* The request of another host is handled, whatever its provider.
LEMMA HostReconfiguresChoice ==
    ASSUME ChoiceInv, NEW p \in Providers, NEW m \in Models, NEW key \in KeysOf(p) \cup {NoKey},
           HostReconfigures(p, m, key)
    PROVE  ChoiceInv'
  <1>1. /\ config'.provider = p /\ config'.model = m
        /\ config' \in [provider : Providers, model : Models, keys : KeyTable]
        /\ client' \in OwnClient \cup {NoChoice}
    <2>1. CASE p \in NeedsKey
      <3>1. key \in Keys /\ OwnKey(p, key)
        BY <2>1 DEF OwnKey, Keys
      <3> QED BY <3>1, ReconfiguredKeys DEF HostReconfigures, Reconfigured
    <2>2. CASE p \notin NeedsKey
      <3>1. config.keys \in KeyTable /\ client \in OwnClient \cup {NoChoice}
        BY DEF ChoiceInv, KeysOwn
      <3>2. NewClient(p, m, key) \in OwnClient \cup {NoChoice}
        BY <2>2, <3>1 DEF NewClient, OwnClient, OwnKey, Keys
      <3> QED BY <2>2, <3>1, <3>2 DEF HostReconfigures, Reconfigured
    <2> QED BY <2>1, <2>2
  <1>2. TypeOK'
    BY <1>1 DEF HostReconfigures, ChoiceInv, TypeOK, KeyTable, OwnClient, Client
  <1>3. KeysOwn'
    BY <1>1 DEF HostReconfigures, ChoiceInv, KeysOwn
  <1>4. RequestComplete' /\ ChoiceOnFile'
    BY DEF HostReconfigures, ChoiceInv, RequestComplete, ChoiceOnFile, Complete
  <1> QED BY <1>2, <1>3, <1>4 DEF ChoiceInv

\* The configuration takes a choice over, whatever becomes of the save.
LEMMA ReportedChoice ==
    ASSUME ChoiceInv, Reported
    PROVE  /\ request \in OwnClient /\ Complete(request)
           /\ config' \in [provider : Known, model : Models, keys : [NeedsKey -> Keys]]
           /\ config'.keys = config.keys
  <1>1. request \in OwnClient /\ Complete(request)
    BY DEF Reported, ChoiceInv, RequestComplete
  <1> QED BY <1>1 DEF Reported, ChoiceInv, TypeOK, OwnClient

\* The reply is there: the file takes the choice that is confirmed.
LEMMA HandleReplyChoice ==
    ASSUME ChoiceInv, NEW onFile, HandleReply(onFile) PROVE ChoiceInv'
  <1>1. /\ request \in OwnClient /\ Complete(request)
        /\ config' \in [provider : Known, model : Models, keys : [NeedsKey -> Keys]]
        /\ config'.keys = config.keys
    BY ReportedChoice DEF HandleReply
  <1>2. onFile.keys \in KeyTable /\ config.keys \in KeyTable /\ fault' \in {"none", "read"}
    BY LoadedKeys DEF HandleReply, ChoiceInv, KeysOwn
  <1>3. saved'.keys \in KeyTable
    BY <1>1, <1>2 DEF HandleReply, Merged, KeyTable, OwnClient, OwnKey
  <1>4. TypeOK'
    BY <1>1, <1>2, <1>3, NothingIsTyped
       DEF HandleReply, Reported, ChoiceInv, TypeOK, KeyTable, OwnClient, Client, Providers
  <1>5. KeysOwn'
    BY <1>1, <1>2, <1>3 DEF HandleReply, Reported, ChoiceInv, KeysOwn
  <1>6. RequestComplete'
    BY DEF HandleReply, Reported, RequestComplete
  <1>7. ChoiceOnFile'
    BY <1>1 DEF HandleReply, ChoiceOnFile, Complete, Merged
  <1> QED BY <1>4, <1>5, <1>6, <1>7 DEF ChoiceInv

\* The save fails: the file and the confirmed choice stay, or both are gone.
LEMMA SaveFailsChoice ==
    ASSUME ChoiceInv, SaveFails PROVE ChoiceInv'
  <1>1. /\ config' \in [provider : Known, model : Models, keys : [NeedsKey -> Keys]]
        /\ config'.keys = config.keys
    BY ReportedChoice DEF SaveFails
  <1> USE NoKeysIsTable, NothingIsTyped DEF SaveFails, Reported, FileTorn, ChoiceInv, NoFile
  <1>2. TypeOK'
    BY <1>1 DEF TypeOK, KeyTable, Providers
  <1>3. KeysOwn'
    BY <1>1 DEF KeysOwn
  <1>4. RequestComplete'
    BY DEF RequestComplete
  <1>5. ChoiceOnFile'
    BY DEF ChoiceOnFile, Complete
  <1> QED BY <1>2, <1>3, <1>4, <1>5

\* The request has failed.
LEMMA SendFailsChoice ==
    ASSUME ChoiceInv, SendFails PROVE ChoiceInv'
  BY DEF SendFails, ChoiceInv, TypeOK, KeysOwn, RequestComplete, ChoiceOnFile, Complete

\* The process ends and its memory with it.
LEMMA ExitChoice ==
    ASSUME ChoiceInv, Exit PROVE ChoiceInv'
  <1> USE NoKeysIsTable, NothingIsTyped DEF Exit, ChoiceInv, NoFile
  <1>1. TypeOK'
    BY DEF TypeOK, KeyTable
  <1>2. KeysOwn'
    BY DEF KeysOwn
  <1>3. RequestComplete' /\ ChoiceOnFile'
    BY DEF RequestComplete, ChoiceOnFile, Complete
  <1> QED BY <1>1, <1>2, <1>3

\* The process ends inside the save: the file is lost, and nothing is confirmed.
LEMMA ExitInSaveChoice ==
    ASSUME ChoiceInv, ExitInSave PROVE ChoiceInv'
  <1> USE NoKeysIsTable, NothingIsTyped DEF ExitInSave, FileTorn, ChoiceInv, NoFile
  <1>1. TypeOK'
    BY DEF TypeOK, KeyTable
  <1>2. KeysOwn'
    BY DEF KeysOwn
  <1>3. RequestComplete' /\ ChoiceOnFile'
    BY DEF RequestComplete, ChoiceOnFile
  <1> QED BY <1>1, <1>2, <1>3

\* Every step keeps the invariant.
LEMMA StepChoice == ChoiceInv /\ [Next]_vars => ChoiceInv'
  <1> SUFFICES ASSUME ChoiceInv, [Next]_vars PROVE ChoiceInv'
    OBVIOUS
  <1>1. CASE UNCHANGED vars
    BY <1>1 DEF vars, ChoiceInv, TypeOK, KeysOwn, RequestComplete, ChoiceOnFile, Complete
  <1>2. CASE Next
    BY <1>2, BootChoice, KeepModelChoice, SendRequestChoice, HandleRequestChoice, HandleReplyChoice,
       SaveFailsChoice, SendFailsChoice, ExitChoice, ExitInSaveChoice, HostReconfiguresChoice DEF Next
  <1> QED BY <1>1, <1>2

\* The invariant holds throughout.
LEMMA ChoiceInvariance == Spec => []ChoiceInv
  BY InitChoice, StepChoice, PTL DEF Spec

-----------------------------------------------------------------------------
(***************************************************************************)
(* The theorems                                                            *)
(***************************************************************************)

\* The types of the configuration, its copies and the file, for any providers,
\* models and keys (EnclaveConfig, _save_config, create_llm_client).
THEOREM ProvidersTyped == Spec => []TypeOK
  BY ChoiceInvariance, PTL DEF ChoiceInv

\* No provider is ever given the key of another: in each of the places a key
\* rests or travels it is under the name of its owner.
THEOREM KeysTheorem == Spec => []KeysGoToTheirProvider
  <1>1. ChoiceInv => KeysGoToTheirProvider
    <2> SUFFICES ASSUME ChoiceInv, client.key # NoKey PROVE client.key.of = client.provider
      BY DEF KeysGoToTheirProvider
    <2>1. client \in OwnClient
      BY DEF ChoiceInv, KeysOwn, NoChoice
    <2> QED BY <2>1, KeysAreTyped DEF OwnClient, OwnKey
  <1> QED BY <1>1, ChoiceInvariance, PTL

\* The confirmed choice comes back at every start that can read the file, since
\* the file holds it and a key on file wins over an exported one.
THEOREM RestartTheorem == Spec => RestartKeepsChoice
  <1> DEFINE A == pc = "off" /\ pc' = "idle" /\ confirmed # NoChoice /\ fault' # "read"
                    => client' = confirmed
  <1>1. ChoiceInv /\ [Next]_vars => A
    <2> SUFFICES ASSUME ChoiceInv, [Next]_vars, pc = "off", pc' = "idle",
                        confirmed # NoChoice, fault' # "read"
                 PROVE  client' = confirmed
      OBVIOUS
    <2>1. PICK p \in Known, m \in Models, exported \in Exports, onFile \in {saved, NoFile} :
                 Boot(p, m, exported, onFile)
      BY DEF Next, vars, KeepModel, SendRequest, TakeKey, HandleRequest, HandleReply, SaveFails,
             Reported, SendFails, Exit, ExitInSave, HostReconfigures
    <2>2. onFile = saved
      BY <2>1, LoadedKeys DEF Boot
    <2>3. confirmed \in OwnClient /\ saved.provider = confirmed.provider
          /\ saved.model = confirmed.model /\ Complete(confirmed)
          /\ (confirmed.provider \in NeedsKey => saved.keys[confirmed.provider] = confirmed.key)
      BY DEF ChoiceInv, KeysOwn, ChoiceOnFile
    <2>4. saved.provider # NoProvider
      BY <2>3, ProvidersAssumption DEF OwnClient
    <2>5. client' = [provider |-> confirmed.provider, model |-> confirmed.model,
                     key |-> KeyFor(config', confirmed.provider)]
          /\ config'.keys = Applied(exported, saved.keys)
      BY <2>1, <2>2, <2>3, <2>4 DEF Boot
    <2>6. KeyFor(config', confirmed.provider) = confirmed.key
      BY <2>3, <2>5 DEF KeyFor, Applied, Complete
    <2> QED BY <2>3, <2>5, <2>6 DEF OwnClient
  <1>2. A => [A]_vars
    OBVIOUS
  <1> QED BY <1>1, <1>2, ChoiceInvariance, PTL DEF Spec, RestartKeepsChoice

\* A save merges what it has read: the key of a provider is never lost but with
\* the whole file, or by a save that could not read the file.
THEOREM SavedKeysTheorem == Spec => SavedKeysStay
  <1> DEFINE A == \/ \A p \in NeedsKey : saved.keys[p] # NoKey => saved'.keys[p] # NoKey
                  \/ saved' = NoFile /\ fault' \in {"write", "exit"}
                  \/ pc = "handled" /\ pc' = "idle" /\ fault' = "read"
  <1>1. ChoiceInv /\ [Next]_vars => A
    <2> SUFFICES ASSUME ChoiceInv, [Next]_vars PROVE A
      OBVIOUS
    <2>1. ASSUME NEW onFile, HandleReply(onFile) PROVE A
      <3>1. CASE fault' = "read"
        BY <2>1, <3>1 DEF HandleReply, Reported
      <3>2. CASE fault' # "read"
        <4>1. onFile = saved
          BY <2>1, <3>2, LoadedKeys DEF HandleReply
        <4> QED BY <2>1, <4>1 DEF HandleReply, Merged
      <3> QED BY <3>1, <3>2
    <2>2. CASE SaveFails \/ ExitInSave
      BY <2>2 DEF SaveFails, ExitInSave, FileTorn
    <2>3. CASE UNCHANGED saved
      BY <2>3
    <2> QED
      BY <2>1, <2>2, <2>3 DEF Next, vars, Boot, KeepModel, SendRequest, HandleRequest, SendFails,
                              Exit, HostReconfigures
  <1> QED BY <1>1, ChoiceInvariance, PTL DEF Spec, SavedKeysStay
=============================================================================

------------------------------- MODULE Providers -------------------------------
(***************************************************************************)
(* Which model the agent talks to, and with which key: EnclaveTUI.boot,    *)
(* the model selector and _restart_enclave (tui.py), the embedded          *)
(* EnclaveService with its reconfigure handler (enclave/main.py), and the  *)
(* preferences file that outlives them.  The TUI and the service it embeds *)
(* share one EnclaveConfig.                                                *)
(*                                                                         *)
(* A key is a record that says whose it is, so that a key on its way to    *)
(* the wrong provider shows.  Base URLs are left out: they take the way of *)
(* the keys, without the file.                                             *)
(***************************************************************************)
EXTENDS Naturals

CONSTANTS
    Known,          \* the providers create_llm_client has a client for
    NeedsKey,       \* those of them that need an API key
    Unknown,        \* names of no provider, which a host may send
    NoProvider,     \* no preference on file
    Models,         \* model ids
    MaxKeys,        \* bound: API keys of a provider
    ShellKeys,      \* bound: which of them the shell may export
    HostSends       \* does a host other than the TUI send reconfigure requests?

ASSUME ProvidersAssumption ==
    /\ NeedsKey \subseteq Known
    /\ Models # {}
    /\ Unknown \cap Known = {}
    /\ NoProvider \notin Known \cup Unknown
    /\ MaxKeys \in Nat /\ ShellKeys \subseteq 1..MaxKeys
    /\ HostSends \in BOOLEAN

Providers == Known \cup Unknown
NoKey     == [of |-> NoProvider, n |-> 0]
KeysOf(p) == {[of |-> p, n |-> n] : n \in 1..MaxKeys}
Keys      == {NoKey} \cup UNION {KeysOf(p) : p \in NeedsKey}
NoKeys    == [p \in NeedsKey |-> NoKey]

VARIABLES
    pc,         \* "off", "idle" at the prompt, or the reconfigure request is "sent" or "handled"
    config,     \* the one EnclaveConfig: provider, model, and a key for each provider
    env,        \* the API keys in os.environ
    client,     \* the controller's LLM client: provider, model, key
    request,    \* the reconfigure request of the TUI, and what it got
    saved,      \* the preferences file: provider, model, keys
    confirmed,  \* history: the last choice reported as done and saved, while the file is whole
    fault       \* history: what went wrong with the file in the last step: its
                \* reading or writing failed, or an exit cut the writing off

vars == <<pc, config, env, client, request, saved, confirmed, fault>>

Client   == [provider : Known, model : Models, key : Keys]
NoFile   == [provider |-> NoProvider, model |-> CHOOSE m \in Models : TRUE, keys |-> NoKeys]
NoChoice == [provider |-> NoProvider, model |-> CHOOSE m \in Models : TRUE, key |-> NoKey]

\* The key of whatever provider is in use now.
KeyInUse(c, p) == IF c.provider \in NeedsKey THEN c.keys[c.provider] ELSE NoKey
\* The key the configuration c has for provider p.
KeyFor(c, p) == IF p \in NeedsKey THEN c.keys[p] ELSE NoKey

Init ==
    /\ pc = "off"
    /\ config = NoFile
    /\ env = NoKeys
    /\ client = NoChoice
    /\ request = NoChoice
    /\ saved = NoFile
    /\ confirmed = NoChoice
    /\ fault = "none"

-----------------------------------------------------------------------------
(***************************************************************************)
(* Start and exit                                                          *)
(***************************************************************************)

\* Exported keys win over those on file.
ShellFirst(exported, onFile) == [p \in NeedsKey |-> IF exported[p] # NoKey THEN exported[p] ELSE onFile[p]]
\* _apply_saved_config: in the configuration a key on file wins over an exported one.
Applied(exported, onFile) == [p \in NeedsKey |-> IF onFile[p] # NoKey THEN onFile[p] ELSE exported[p]]

\* _load_saved_config: a file that cannot be read counts as none.
Load(onFile) ==
    \/ onFile = saved /\ fault' = "none"
    \/ onFile = NoFile /\ fault' = "read"

\* boot and EnclaveService.__init__.  Without preferences on file the provider
\* is the one the shell names, or the mock.
Boot(p, m, exported, onFile) ==
    /\ pc = "off"
    /\ pc' = "idle"
    /\ Load(onFile)
    /\ LET known == onFile.provider # NoProvider
       IN config' = [provider |-> IF known THEN onFile.provider ELSE p,
                     model    |-> IF known THEN onFile.model ELSE m,
                     keys     |-> Applied(exported, onFile.keys)]
    /\ env' = ShellFirst(exported, onFile.keys)
    /\ client' = [provider |-> config'.provider, model |-> config'.model,
                  key |-> KeyFor(config', config'.provider)]
    /\ UNCHANGED <<request, saved, confirmed>>

\* The process ends, at the prompt or with Ctrl-C while a request is out.
Exit ==
    /\ pc # "off"
    /\ pc' = "off"
    /\ config' = NoFile /\ env' = NoKeys /\ client' = NoChoice /\ request' = NoChoice
    /\ UNCHANGED <<saved, confirmed>> /\ fault' = "none"

\* write_text has emptied the file and not yet filled it: what is there is not
\* JSON, and counts as no file.
FileTorn == saved' = NoFile /\ confirmed' = NoChoice

\* The process ends inside write_text.
ExitInSave ==
    /\ pc = "handled"
    /\ pc' = "off"
    /\ FileTorn /\ fault' = "exit"
    /\ config' = NoFile /\ env' = NoKeys /\ client' = NoChoice /\ request' = NoChoice

-----------------------------------------------------------------------------
(***************************************************************************)
(* The model selector, /model                                              *)
(***************************************************************************)

\* The key: the one typed, or else that of the environment.
ApiKey(p, typed) ==
    IF p \notin NeedsKey THEN NoKey ELSE IF typed # NoKey THEN typed ELSE env[p]

\* "No API key provided. Cannot switch"
HasKey(p, typed) == p \in NeedsKey => ApiKey(p, typed) # NoKey

\* The environment and the configuration take the key.
TakeKey(p, typed) ==
    /\ pc = "idle"
    /\ HasKey(p, typed)
    /\ IF p \in NeedsKey
       THEN /\ env' = [env EXCEPT ![p] = ApiKey(p, typed)]
            /\ config' = [config EXCEPT !.keys[p] = ApiKey(p, typed)]
       ELSE UNCHANGED <<env, config>>

InUse(p, m) == p = config.provider /\ m = config.model

\* "Already using this model": the enclave is not told of the key.
KeepModel(p, m, typed) ==
    /\ InUse(p, m)
    /\ TakeKey(p, typed)
    /\ UNCHANGED <<pc, client, request, saved, confirmed>> /\ fault' = "none"

\* _restart_enclave sends the reconfigure request.
SendRequest(p, m, typed) ==
    /\ ~InUse(p, m)
    /\ TakeKey(p, typed)
    /\ pc' = "sent"
    /\ request' = [provider |-> p, model |-> m, key |-> KeyFor(config', p)]
    /\ UNCHANGED <<client, saved, confirmed>> /\ fault' = "none"

\* create_llm_client; it raises for an unknown provider, and the client stays.
NewClient(p, m, key) ==
    IF p \in Known
    THEN [provider |-> p, model |-> m, key |-> IF p \in NeedsKey THEN key ELSE NoKey]
    ELSE client

\* _handle_reconfigure.  The configuration is changed before the client is made.
Reconfigured(p, m, key) ==
    /\ config' = [provider |-> p, model |-> m,
                  keys |-> IF key = NoKey \/ p \notin NeedsKey THEN config.keys
                           ELSE [config.keys EXCEPT ![p] = key]]
    /\ client' = NewClient(p, m, key)

HandleRequest ==
    /\ pc = "sent"
    /\ Reconfigured(request.provider, request.model, request.key)
    /\ pc' = "handled"
    /\ UNCHANGED <<env, request, saved, confirmed>> /\ fault' = "none"

\* The file is written anew.
Replaced(onFile, p, key) == [q \in NeedsKey |-> IF q = p THEN key ELSE NoKey]
\* _save_config keeps the keys of the other providers.
Merged(onFile, p, key) == [q \in NeedsKey |-> IF q = p /\ key # NoKey THEN key ELSE onFile.keys[q]]

\* The reply is there: the TUI takes the choice over and reports the switch.
Reported ==
    /\ pc = "handled"
    /\ pc' = "idle"
    /\ config' = [config EXCEPT !.provider = request.provider, !.model = request.model]
    /\ request' = NoChoice
    /\ UNCHANGED <<env, client>>

\* Then it saves the preferences.
HandleReply(onFile) ==
    /\ Reported
    /\ Load(onFile)
    /\ saved' = [provider |-> request.provider, model |-> request.model,
                 keys |-> Merged(onFile, request.provider, request.key)]
    /\ confirmed' = request

\* The save fails, before or after write_text has emptied the file.  That is a
\* warning, "Could not save config", behind the report of the switch.
SaveFails ==
    /\ Reported
    /\ fault' = "write"
    /\ UNCHANGED <<saved, confirmed>> \/ FileTorn

\* client.send raises, before or after the enclave has handled the request; the
\* command loop prints the error, and nothing behind the call is done.
SendFails ==
    /\ pc \in {"sent", "handled"}
    /\ pc' = "idle"
    /\ request' = NoChoice
    /\ UNCHANGED <<config, env, client, saved, confirmed>> /\ fault' = "none"

\* A request from another host, with a key or without.
HostReconfigures(p, m, key) ==
    /\ HostSends
    /\ pc # "off"
    /\ Reconfigured(p, m, key)
    /\ UNCHANGED <<pc, env, request, saved, confirmed>> /\ fault' = "none"

-----------------------------------------------------------------------------
Exports == {e \in [NeedsKey -> Keys] : \A p \in NeedsKey : e[p] = NoKey \/ (e[p].of = p /\ e[p].n \in ShellKeys)}

Next ==
    \/ \E p \in Known, m \in Models :
         \/ \E exported \in Exports, onFile \in {saved, NoFile} : Boot(p, m, exported, onFile)
         \/ \E typed \in KeysOf(p) \cup {NoKey} : KeepModel(p, m, typed) \/ SendRequest(p, m, typed)
    \/ HandleRequest \/ SendFails
    \/ (\E onFile \in {saved, NoFile} : HandleReply(onFile)) \/ SaveFails
    \/ Exit \/ ExitInSave
    \/ \E p \in Providers, m \in Models : \E key \in KeysOf(p) \cup {NoKey} :
         HostReconfigures(p, m, key)

Spec == Init /\ [][Next]_vars

-----------------------------------------------------------------------------
(***************************************************************************)
(* Properties                                                              *)
(***************************************************************************)

\* The values of the variables.
TypeOK ==
    /\ pc \in {"off", "idle", "sent", "handled"}
    /\ config \in [provider : Providers \cup {NoProvider}, model : Models, keys : [NeedsKey -> Keys]]
    /\ env \in [NeedsKey -> Keys]
    /\ client \in Client \cup {NoChoice}
    /\ request \in Client \cup {NoChoice}
    /\ saved \in [provider : Known \cup {NoProvider}, model : Models, keys : [NeedsKey -> Keys]]
    /\ confirmed \in Client \cup {NoChoice}
    /\ fault \in {"none", "read", "write", "exit"}

\* A provider is never given the key of another one, through switches, failed
\* requests, the file and restarts.
KeysGoToTheirProvider == client.key # NoKey => client.key.of = client.provider

\* What the TUI reported as done and saved without a warning comes back at the
\* next start: the provider, the model and the key, whatever the shell exports by
\* then and whatever came after it: requests of a host, requests without a reply,
\* choices whose save failed.  The start has to be able to read the file, and no
\* later save may have torn it (_save_config, _apply_saved_config).
RestartKeepsChoice ==
    [][pc = "off" /\ pc' = "idle" /\ confirmed # NoChoice /\ fault' # "read"
         => client' = confirmed]_vars

\* The file never loses the key of a provider (_save_config: "Merge API keys --
\* keep previously saved keys for other providers"), but with the whole file when
\* its writing is cut off, or by a save that could not read it and took it for none.
SavedKeysStay ==
    [][\/ \A p \in NeedsKey : saved.keys[p] # NoKey => saved'.keys[p] # NoKey
       \/ saved' = NoFile /\ fault' \in {"write", "exit"}
       \/ pc = "handled" /\ pc' = "idle" /\ fault' = "read"]_vars
=============================================================================

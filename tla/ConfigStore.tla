------------------------------ MODULE ConfigStore ------------------------------
(***************************************************************************)
(* The configuration file (internal/config/manager.go), the address cache  *)
(* of the database, and everything that writes them: login, upload and     *)
(* logout (handler/config.go), the settings, the printer selector, the LAN *)
(* searches, the repair at start-up (cmd/ankerctl/configcheck.go) and the  *)
(* PPPP service; with the start of the program (cmd/ankerctl/main.go).     *)
(*                                                                         *)
(* Modify loads, changes and saves under the manager's lock and is one     *)
(* step.  A handler that calls Load and later Save or Modify takes two, and *)
(* keeps what it loaded in its record.  A printer's IP address is named by *)
(* the printer that has it.  What a printer's row says is its serial       *)
(* number and the address stored for it.                                   *)
(***************************************************************************)
EXTENDS Integers, Sequences, Functions, FiniteSets, Subsequence

CONSTANTS
  SNs,          \* serial numbers
  NoSN,         \* no address, no printer
  Absent,       \* there is no configuration file
  Torn,         \* its last write was cut short: no JSON
  Unsupported,  \* serial numbers of models that Load strips
  CloudLists,   \* the lists of printers an account may have
  Settings,     \* settings with a page of their own; "ha" is one
  Requests,     \* requests to handlers that take several steps
  MaxBoots      \* bound: starts of the program

ASSUME ConfigAssumption ==
  /\ NoSN \notin SNs
  /\ Absent # Torn
  /\ Unsupported \subseteq SNs
  /\ CloudLists \subseteq Seq(SNs)
  /\ "ha" \in Settings
  /\ MaxBoots \in Nat

VARIABLES
  file,        \* default.json
  ipCache,     \* SN |-> address in the table printer_cache
  up,          \* the program runs
  boots,
  printerIdx,  \* the index the services were made with
  loaded,      \* the printer a start of the PPPP service has read from the file
  attached,    \* the printer the PPPP service is connected to
  fresh,       \* its address is not yet persisted
  missed,      \* history: a restart did not stop this start, nor what came of it
  ha,          \* the Home Assistant service
  login,       \* the web server's view: somebody is logged in
  req,         \* request |-> what it is doing
  discovering, \* serial numbers a background discovery is looking for
  repair       \* what the repair at start-up is looking for

sessionVars == <<loaded, attached, fresh, missed>>
serviceVars == <<printerIdx, sessionVars, ha>>

configVars == <<file, ipCache, up, boots, serviceVars, login, req, discovering, repair>>

Values  == {"default", "chosen"}
Row     == [sn : SNs, ip : SNs \union {NoSN}]
Configs == [account : BOOLEAN, printers : Seq(Row), active : Nat,
            prefs : [Settings -> Values]]

NoRepair   == [idx |-> 0, sn |-> NoSN]
Plain      == [s \in Settings |-> "default"]
Empty      == [account |-> FALSE, printers |-> << >>, active |-> 0, prefs |-> Plain]
Idle(at)   == [at |-> at, list |-> << >>, idx |-> 0]

RequestPoints == {"new", "save", "lan", "debug", "switch", "reload",
                  "restart", "done"}

ConfigTypeOK ==
  /\ file \in Configs \union {Absent, Torn}
  /\ ipCache \in [SNs -> SNs \union {NoSN}]
  /\ up \in BOOLEAN /\ boots \in 0..MaxBoots /\ printerIdx \in Nat
  /\ {loaded, attached} \subseteq SNs \union {NoSN} /\ {fresh, missed} \subseteq BOOLEAN
  /\ ha \in {"none", "idle", "started"}
  /\ login \in BOOLEAN
  /\ DOMAIN req = Requests
  /\ \A r \in Requests : /\ req[r].at \in RequestPoints
                         /\ req[r].list \in Seq(Row) /\ req[r].idx \in Nat
  /\ discovering \subseteq SNs
  /\ repair \in [idx : Nat, sn : SNs \union {NoSN}]

-------------------------------------------------------------------------------
Supported(printers) ==
  ElementsAt(printers, {i \in DOMAIN printers : printers[i].sn \notin Unsupported})

(* loadLocked.  A file that says null, which Modify leaves when there was  *)
(* none, loads as the empty configuration.                                 *)
HasFile == file \notin {Absent, Torn}
Load    == [file EXCEPT !.printers = Supported(@)]

(* Modify: a modifier given nil returns nil, and null is saved.  A file    *)
(* that cannot be parsed stays as it is.                                   *)
Modify(changed) ==
  file' = IF file = Torn THEN Torn ELSE IF file = Absent THEN Empty ELSE changed

(* activePrinter: an index out of range means the first printer. *)
ActiveIndex(cfg) == IF cfg.active < Len(cfg.printers) THEN cfg.active ELSE 0

WithAddress(cfg, idx, ip) ==
  IF idx < Len(cfg.printers) THEN [cfg EXCEPT !.printers[idx + 1].ip = ip] ELSE cfg

WithAddressOf(cfg, sn) ==
  [cfg EXCEPT !.printers =
     [i \in DOMAIN @ |-> IF @[i].sn = sn THEN [@[i] EXCEPT !.ip = sn] ELSE @[i]]]

SerialAt(idx) ==
  IF HasFile /\ idx < Len(Load.printers) THEN Load.printers[idx + 1].sn ELSE NoSN

(* Mutant: an empty serial number gets a row, too. *)
CachedEmpty(sn, ip) == [x \in SNs \union {sn} |-> IF x = sn THEN ip ELSE ipCache[x]]

(* SetPrinterIP refuses an empty serial number. *)
Cached(sn, ip) == IF sn = NoSN THEN ipCache ELSE [ipCache EXCEPT ![sn] = ip]

(* Rows of which only the serial numbers are used. *)
Unplaced(printers) == [i \in DOMAIN printers |-> [printers[i] EXCEPT !.ip = NoSN]]

SerialsOf(printers) == {printers[i].sn : i \in DOMAIN printers}

(* ReloadState, and the same in the server's initialize. *)
IsConfigured == IF HasFile THEN Load.account ELSE FALSE

-------------------------------------------------------------------------------
(* Nobody is connected to a printer, or about to be. *)
Detached == loaded' = NoSN /\ attached' = NoSN /\ fresh' = FALSE /\ missed' = FALSE

ConfigInit ==
  /\ file \in {Absent} \union
       {[account |-> TRUE,
         printers |-> [i \in DOMAIN list |-> [sn |-> list[i], ip |-> NoSN]],
         active |-> 0, prefs |-> [Plain EXCEPT !["ha"] = "chosen"]] : list \in CloudLists}
  /\ ipCache = [sn \in SNs |-> NoSN]
  /\ up = FALSE /\ boots = 0 /\ printerIdx = 0
  /\ loaded = NoSN /\ attached = NoSN /\ fresh = FALSE /\ missed = FALSE
  /\ ha = "none"
  /\ login = FALSE
  /\ req = [r \in Requests |-> Idle("new")]
  /\ discovering = {}
  /\ repair = NoRepair

(* runWebserver.  The services are made with the saved index and started.  *)
(* The Home Assistant service is registered as "homeassistant" and asked   *)
(* for as "ha", so it stays idle.  checkAndRepairConfig looks for the      *)
(* address of the active printer.  A file that cannot be parsed ends the   *)
(* program in initialize.                                                  *)
Boot ==
  /\ ~up /\ boots < MaxBoots /\ file # Torn
  /\ up' = TRUE /\ boots' = boots + 1
  /\ LET idx == IF HasFile THEN Load.active ELSE 0
     IN  /\ printerIdx' = idx
         /\ repair' = IF /\ IsConfigured
                         /\ idx < Len(Load.printers)
                         /\ Load.printers[idx + 1].ip = NoSN
                      THEN [idx |-> idx, sn |-> Load.printers[idx + 1].sn]
                      ELSE NoRepair
  /\ ha' = IF HasFile THEN "idle" ELSE "none"
  /\ login' = IsConfigured
  /\ Detached
  /\ UNCHANGED <<file, ipCache, req, discovering>>

(* The process dies, perhaps between the truncation of the file and the    *)
(* write of its new contents.                                              *)
Crash ==
  /\ up
  /\ up' = FALSE
  /\ file' \in {file, Torn}
  /\ req' = [r \in Requests |-> IF req[r].at = "new" THEN req[r] ELSE Idle("done")]
  /\ Detached /\ ha' = "none"
  /\ discovering' = {} /\ repair' = NoRepair
  /\ UNCHANGED <<ipCache, boots, printerIdx, login>>

(* checkAndRepairConfig's goroutine: the printer answers, or nobody does.  *)
RepairEnds ==
  /\ repair # NoRepair
  /\ repair' = NoRepair
  /\ \/ /\ HasFile \/ file = Absent
        /\ Modify(WithAddress(Load, repair.idx, repair.sn))
        /\ ipCache' = Cached(repair.sn, repair.sn)
     \/ UNCHANGED <<file, ipCache>>
  /\ UNCHANGED <<up, boots, serviceVars, login, req, discovering>>

-------------------------------------------------------------------------------
(* The PPPP service: the client factory of its WorkerStart reads the file, *)
(* by the index it was made with, and persistPrinterIP writes at that      *)
(* index.                                                                  *)
ServiceStarts ==
  /\ up /\ attached = NoSN /\ loaded = NoSN
  /\ SerialAt(printerIdx) # NoSN
  /\ loaded' = SerialAt(printerIdx)
  /\ UNCHANGED <<file, ipCache, up, boots, printerIdx, attached, fresh, missed, ha, login,
                 req, discovering, repair>>

(* WorkerRun, with a run context: the printer that was read is found. *)
ServiceConnects ==
  /\ loaded # NoSN
  /\ loaded' = NoSN /\ attached' = loaded
  /\ fresh' = TRUE
  /\ UNCHANGED <<file, ipCache, up, boots, printerIdx, missed, ha, login, req,
                 discovering, repair>>

(* The connection ends, or is never made. *)
ServiceLosesPrinter ==
  /\ attached # NoSN \/ loaded # NoSN
  /\ Detached
  /\ UNCHANGED <<file, ipCache, up, boots, printerIdx, ha, login, req,
                 discovering, repair>>

persistPrinterIP ==
  /\ fresh
  /\ fresh' = FALSE
  /\ Modify(WithAddress(Load, printerIdx, attached))
  /\ ipCache' = Cached(SerialAt(printerIdx), attached)
  /\ UNCHANGED <<up, boots, printerIdx, loaded, attached, missed, ha, login, req,
                 discovering, repair>>

-------------------------------------------------------------------------------
(* ConfigLogin: the cloud's list, with addresses it may omit; those are    *)
(* taken from the file, then from the cache, and all go to the cache.      *)
LoginReads(r) ==
  /\ up /\ req[r].at = "new"
  /\ \E list \in CloudLists, told \in SUBSET SNs :
       LET known(sn) == {i \in (IF HasFile THEN DOMAIN Load.printers ELSE {}) :
                           Load.printers[i].sn = sn /\ Load.printers[i].ip # NoSN}
           address(sn) == IF sn \in told THEN sn
                          ELSE IF known(sn) = {} THEN ipCache[sn]
                          ELSE Load.printers[CHOOSE i \in known(sn) : TRUE].ip
       IN  /\ req' = [req EXCEPT ![r] =
                [Idle("save") EXCEPT !.list =
                   [i \in DOMAIN list |-> [sn |-> list[i], ip |-> address(list[i])]]]]
           /\ ipCache' = [sn \in SNs |->
                            IF sn \in Range(list) THEN address(sn) ELSE ipCache[sn]]
  /\ UNCHANGED <<file, up, boots, serviceVars, login, discovering, repair>>

(* The new configuration replaces the old one; the browser is sent to      *)
(* /server/reload.                                                         *)
LoginSaves(r) ==
  /\ req[r].at = "save"
  /\ file' = [Empty EXCEPT !.account = TRUE, !.printers = req[r].list]
  /\ discovering' = discovering \union SerialsOf(req[r].list)
  /\ \E at \in {"reload", "done"} : req' = [req EXCEPT ![r] = Idle(at)]
  /\ UNCHANGED <<ipCache, up, boots, serviceVars, login, repair>>

(* ConfigUpload and ImportSlicer: a whole configuration, as it is. *)
ConfigUpload ==
  /\ up
  /\ \E list \in CloudLists, active \in 0..1, prefs \in {Plain, [Plain EXCEPT !["ha"] = "chosen"]} :
       /\ file' = [account |-> TRUE,
                   printers |-> [i \in DOMAIN list |-> [sn |-> list[i], ip |-> NoSN]],
                   active |-> active, prefs |-> prefs]
       /\ discovering' = discovering \union Range(list)
  /\ UNCHANGED <<ipCache, up, boots, serviceVars, login, req, repair>>

(* discoverAndPersistPrinterIPs, one goroutine: by serial number. *)
DiscoveryEnds(sn) ==
  /\ sn \in discovering
  /\ discovering' = discovering \ {sn}
  /\ \/ /\ Modify(WithAddressOf(Load, sn))
        /\ ipCache' = Cached(sn, sn)
     \/ UNCHANGED <<file, ipCache>>
  /\ UNCHANGED <<up, boots, serviceVars, login, req, repair>>

LogoutDeletes(r) ==
  /\ up /\ req[r].at = "new"
  /\ file' = Absent
  /\ req' = [req EXCEPT ![r] = Idle("reload")]
  /\ UNCHANGED <<ipCache, up, boots, serviceVars, login, discovering, repair>>

(* Mutant: the services are not restarted. *)
ReloadEnds(r) ==
  /\ req[r].at = "reload"
  /\ login' = IsConfigured
  /\ req' = [req EXCEPT ![r] = Idle("done")]
  /\ UNCHANGED <<file, ipCache, up, boots, serviceVars, discovering, repair>>

(* ConfigLogout and ServerReload: ReloadState, then RestartAll. *)
Reloads(r) ==
  /\ req[r].at = "reload"
  /\ login' = IsConfigured
  /\ req' = [req EXCEPT ![r] = Idle("restart")]
  /\ UNCHANGED <<file, ipCache, up, boots, serviceVars, discovering, repair>>

(* Restart cancels the run context, if there is one.  The state it sets is *)
(* overwritten when WorkerStart returns, and it cancels nothing between    *)
(* the loop's look at the state and the new run context: a start that has  *)
(* read the file may go on.                                                *)
Restarted ==
  \/ Detached
  \/ /\ loaded # NoSN /\ missed' = TRUE
     /\ UNCHANGED <<loaded, attached, fresh>>

(* RestartAll: the services let go, to start again, and what was never     *)
(* started starts, too.                                                    *)
RestartAll(r) ==
  /\ req[r].at = "restart"
  /\ Restarted
  /\ ha' = IF ha = "none" THEN "none" ELSE "started"
  /\ req' = [req EXCEPT ![r] = Idle("done")]
  /\ UNCHANGED <<file, ipCache, up, boots, printerIdx, login, discovering, repair>>

-------------------------------------------------------------------------------
(* SettingsMQTTUpdate hands its part to the Home Assistant service, which  *)
(* restarts.                                                               *)
Configured(s) == IF s = "ha" /\ ha # "none" THEN "started" ELSE ha

(* The settings handlers: one field of the configuration. *)
SaveSetting(s) ==
  /\ up
  /\ \E v \in Values : Modify([Load EXCEPT !.prefs[s] = v])
  /\ ha' = Configured(s)
  /\ UNCHANGED <<ipCache, up, boots, printerIdx, sessionVars, login, req,
                 discovering, repair>>

(* PrintersSwitch: the checks on the configuration it loaded (no print     *)
(* under way), then the index, then RestartAll.                            *)
SwitchChecks(r) ==
  /\ up /\ req[r].at = "new"
  /\ HasFile
  /\ \E idx \in 0..(Len(Load.printers) - 1) :
       /\ idx # Load.active
       /\ req' = [req EXCEPT ![r] = [Idle("switch") EXCEPT !.idx = idx]]
  /\ UNCHANGED <<file, ipCache, up, boots, serviceVars, login, discovering, repair>>

SwitchSaves(r) ==
  /\ req[r].at = "switch"
  /\ Modify([Load EXCEPT !.active = req[r].idx])
  /\ req' = [req EXCEPT ![r] = Idle(IF file = Torn THEN "done" ELSE "restart")]
  /\ UNCHANGED <<ipCache, up, boots, serviceVars, login, discovering, repair>>

(* LANSearch: the answers are matched to the list it loaded, and written   *)
(* at the index found there.                                               *)
SearchBegins(r) ==
  /\ up /\ req[r].at = "new"
  /\ HasFile
  /\ Load.printers # << >>
  /\ req' = [req EXCEPT ![r] = [Idle("lan") EXCEPT !.list = Unplaced(Load.printers)]]
  /\ UNCHANGED <<file, ipCache, up, boots, serviceVars, login, discovering, repair>>

(* Mutant: the list it loaded is written back. *)
SearchWritesItsList(r) ==
  /\ req[r].at = "lan"
  /\ \E i \in DOMAIN req[r].list :
       Modify([Load EXCEPT !.printers = [req[r].list EXCEPT ![i].ip = req[r].list[i].sn]])
  /\ req' = [req EXCEPT ![r] = Idle("done")]
  /\ UNCHANGED <<ipCache, up, boots, serviceVars, login, discovering, repair>>

SearchPersists(r) ==
  /\ req[r].at = "lan"
  /\ \/ /\ \E i \in DOMAIN req[r].list :
             /\ Modify(WithAddress(Load, i - 1, req[r].list[i].sn))
             /\ ipCache' = Cached(req[r].list[i].sn, req[r].list[i].sn)
        /\ UNCHANGED req
     \/ /\ req' = [req EXCEPT ![r] = Idle("done")]
        /\ UNCHANGED <<file, ipCache>>
  /\ UNCHANGED <<up, boots, serviceVars, login, discovering, repair>>

(* DiscoverPrinterIP: the active printer is looked for, and the answer is  *)
(* written to the printer that is active then.                             *)
DebugBegins(r) ==
  /\ up /\ req[r].at = "new"
  /\ HasFile
  /\ Load.printers # << >>
  /\ req' = [req EXCEPT ![r] =
       [Idle("debug") EXCEPT !.list =
          Unplaced(<<Load.printers[ActiveIndex(Load) + 1]>>)]]
  /\ UNCHANGED <<file, ipCache, up, boots, serviceVars, login, discovering, repair>>

DebugPersists(r) ==
  /\ req[r].at = "debug"
  /\ LET sn == req[r].list[1].sn
     IN  \/ /\ Modify(WithAddress(Load, ActiveIndex(Load), sn))
            /\ ipCache' = Cached(sn, sn)
         \/ UNCHANGED <<file, ipCache>>
  /\ req' = [req EXCEPT ![r] = Idle("done")]
  /\ UNCHANGED <<up, boots, serviceVars, login, discovering, repair>>

-------------------------------------------------------------------------------
(* What a request does by itself once it was begun. *)
Proceeds(r) ==
  \/ LoginSaves(r)
  \/ Reloads(r)
  \/ RestartAll(r)
  \/ SwitchSaves(r)
  \/ SearchPersists(r)
  \/ DebugPersists(r)

Imports == ConfigUpload \/ \E r \in Requests : LoginSaves(r)

ConfigNext ==
  \/ Boot
  \/ Crash
  \/ RepairEnds
  \/ ServiceStarts
  \/ ServiceConnects
  \/ ServiceLosesPrinter
  \/ persistPrinterIP
  \/ ConfigUpload
  \/ \E sn \in SNs : DiscoveryEnds(sn)
  \/ \E s \in Settings : SaveSetting(s)
  \/ \E r \in Requests :
       \/ LoginReads(r)
       \/ LogoutDeletes(r)
       \/ SwitchChecks(r)
       \/ SearchBegins(r)
       \/ DebugBegins(r)
       \/ Proceeds(r)

ConfigSpec == ConfigInit /\ [][ConfigNext]_configVars

(* A reload that was begun goes on to its end.  Nobody has to call, and    *)
(* the program may die at any time.                                        *)
ConfigFairness ==
  \A r \in Requests : WF_configVars(Reloads(r)) /\ WF_configVars(RestartAll(r))

ConfigFairSpec == ConfigSpec /\ ConfigFairness

-------------------------------------------------------------------------------
(* No update is lost: what a step does to a configuration, if it is no     *)
(* import and no logout, is at most one of these: the active index, one    *)
(* setting, or the address of one printer.  Nobody writes back what he     *)
(* loaded a while ago.                                                     *)
MovesOnePrinter(old, new) ==
  /\ new = [old EXCEPT !.printers = new.printers]
  /\ DOMAIN new.printers = DOMAIN old.printers
  /\ \E sn \in SNs, ip \in SNs \union {NoSN} : \A k \in DOMAIN old.printers :
       new.printers[k] \in {old.printers[k]} \union
         (IF old.printers[k].sn = sn THEN {[old.printers[k] EXCEPT !.ip = ip]} ELSE {})

OneChange(old, new) ==
  \/ new = [old EXCEPT !.active = new.active]
  \/ \E s \in Settings : new = [old EXCEPT !.prefs[s] = new.prefs[s]]
  \/ MovesOnePrinter(old, new)

UpdatesAreKept ==
  [][HasFile /\ HasFile' /\ ~Imports => Load' = Load \/ OneChange(Load, Load')]_configVars

(* After a logout that no login follows, the PPPP service lets the printer *)
(* go, and for good, unless the restart met it in the middle of a start    *)
(* that had read the deleted configuration, and did not stop that.         *)
LoggedOut        == ~HasFile \/ Load.printers = << >>
LogoutDetaches   == <>[]LoggedOut => <>[](attached = NoSN \/ missed)

(* config.go:478, "ConfigLogout deletes the stored credentials and stops   *)
(* all services": a service that was in the middle of a start connects     *)
(* when the logout is over.                                                *)
LogoutStopsServices ==
  [][ServiceConnects /\ LoggedOut
       => \E r \in Requests : req[r].at \in {"reload", "restart"}]_configVars

(* manager.go:271, settings are preserved "when re-importing from the      *)
(* Anker API": the function that would do so is called nowhere.            *)
LoginKeepsSettings ==
  [][\A r \in Requests : LoginSaves(r) /\ HasFile => file'.prefs = Load.prefs]_configVars

(* main.go:167, the Home Assistant service "starts automatically when      *)
(* enabled".                                                               *)
HomeAssistantStarts ==
  [][Boot /\ HasFile /\ Load.prefs["ha"] = "chosen" => ha' = "started"]_configVars

(* lansearch.go:12, "persists matching printer IPs into the config": an    *)
(* address is stored for the printer that has it.                          *)
AddressesMatch ==
  HasFile => \A i \in DOMAIN Load.printers : Load.printers[i].ip \in {NoSN, Load.printers[i].sn}

(* selector.go:39, the selector "sets the active printer index in config   *)
(* and restarts services": they go on with the old one.                    *)
ServesSelected ==
  attached # NoSN /\ HasFile
    /\ (\A r \in Requests : req[r].at \in {"new", "done"})
    => attached = SerialAt(ActiveIndex(Load))
===============================================================================

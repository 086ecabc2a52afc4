----------------------------- MODULE Installer -----------------------------
(***************************************************************************)
(* The three programs that set Willow up in one home directory:            *)
(*                                                                         *)
(*   root.py    "Sleipnir": steps in order, the first that raises ends it; *)
(*              at its end it becomes shoot.py                             *)
(*   seed.py    asks, runs its own steps, each of which may fail and is    *)
(*              passed over, then records the run as completed             *)
(*   shoot.py   shows pages, makes a key and a vault, records completion   *)
(*                                                                         *)
(* One of them runs at a time.  `todo` is what is left of the run, and its *)
(* head the step under way.  A run can be interrupted anywhere; a file     *)
(* that was being written is then left cut short ("torn").  Passphrases,   *)
(* texts and layout are left out; the pages stay, as steps.  The schema,   *)
(* the CMB atom and the KB are those of the database the program opens:    *)
(* PostgreSQL, or SQLite for the last two on a phone (Termux).             *)
(***************************************************************************)
EXTENDS Naturals, Sequences, SequencesExt, FiniteSets, Sorting

CONSTANTS Emails,     \* addresses a person may type
          Local,      \* the address of the key root.py makes itself
          Flags,      \* flags of root.py the person may give
          Wsl,        \* runs under WSL
          MaxKeys,    \* bound: GPG keys made
          MaxTrouble  \* bound: steps that fail and runs interrupted, together

ASSUME InstallerAssumption ==
    /\ Local \notin Emails
    /\ Flags \subseteq {"skip_pg", "skip_socket", "skip_gpg", "no_chain", "termux"}
    /\ Wsl \in BOOLEAN
    /\ {MaxKeys, MaxTrouble} \subseteq Nat

VARIABLES prog,     \* the program that runs, or "none"
          todo,     \* the steps left to it
          email,    \* what the person typed in this run
          named,    \* and whether a name came with it
          fp,       \* the key this run found or made: its place in keys
          disk,     \* what is in the home directory
          keys,     \* addresses of the secret GPG keys, oldest first
          profile,  \* WILLOW_PGP_FINGERPRINT in the shell profile
          owner,    \* address and key in the boot config of seed and shoot
          creds,    \* API keys that .master.key decrypts from vault.db
          accepted, \* history: API keys taken while the vault could hold them
          pinned,   \* history: programs that wrote the version file
          excused,  \* history: what is missing because its step was passed
                    \* over, skipped or undone
          trouble   \* steps that failed and runs interrupted so far

installVars == <<prog, todo, email, named, fp, disk, keys, profile, owner, creds, accepted,
                 pinned, excused, trouble>>
formVars  == <<email, named, fp>>
gpgVars   == <<keys, profile>>
vaultVars == <<creds, accepted>>
bookVars  == <<owner, pinned>>
faultVars == <<excused, trouble>>

RootSteps == <<"dirs", "telemetry", "deps", "gpg", "vaultkey", "schema", "socket", "manager",
               "cmb", "kb", "version", "path", "identity", "launcher", "chain">>
SeedInstall == <<"dirs", "telemetry", "deps", "gpg", "vault", "schema", "ollama", "socket",
                 "cmb", "kb", "embed", "grove", "path", "launcher", "identity", "env", "mcp",
                 "hooks">>
SeedSteps  == <<"preflight", "gate", "age">> \o SeedInstall
              \o <<"talk", "features", "cards", "version", "config", "open">>
ShootSteps == <<"check", "boot", "video", "welcome", "covenant", "legal", "paths", "create",
                "frank", "vault", "huginn", "stands", "config", "open">>

Things == {"dirs", "telemetry", "deps", "vaultkey", "schema", "socket", "cmb", "kb", "version",
           "path", "identity", "launcher", "master", "table", "ollama", "embed", "grove", "env",
           "mcp", "hooks", "cards", "seedcfg", "shootcfg"}
Config(p) == IF p = "seed" THEN "seedcfg" ELSE "shootcfg"
NoOwner   == [email |-> Local, key |-> 0]

\* Place of the first secret key made out to e; 0 when there is none.
LastKey(ks, e)  == SelectLastInSeq(ks, LAMBDA k : k = e)
FirstKey(ks, e) == SelectInSeq(ks, LAMBDA k : k = e)

InstallInit ==
    /\ prog = "none" /\ todo = <<>>
    /\ email = Local /\ named = FALSE /\ fp = 0
    /\ disk     = [f \in Things |-> "absent"]
    /\ keys     = <<>>
    /\ profile  = 0
    /\ owner    = [p \in {"seed", "shoot"} |-> NoOwner]
    /\ creds    = {}
    /\ accepted = {}
    /\ pinned   = {}
    /\ excused  = {}
    /\ trouble  = 0

(***************************************************************************)
(* Starting, going on and ending.                                          *)
(***************************************************************************)
FirstRun(p) == disk[Config(p)] # "whole"

Begin(p, steps) ==
    /\ prog = "none"
    /\ prog' = p /\ todo' = steps

StartSeed ==
    /\ Begin("seed", IF FirstRun("seed") THEN SeedSteps ELSE <<"splash", "stamp", "open">>)
    /\ UNCHANGED <<formVars, disk, gpgVars, bookVars, vaultVars, faultVars>>

\* seed.py --dev
StartDev ==
    /\ Begin("seed", <<"open">>)
    /\ UNCHANGED <<formVars, disk, gpgVars, bookVars, vaultVars, faultVars>>

ShootRun ==
    IF FirstRun("shoot")          THEN ShootSteps
    ELSE IF owner["shoot"].key = 0 THEN <<"check", "create", "stamp", "open">>
    ELSE <<"check", "auth", "stamp", "open">>

StartShoot ==
    /\ Begin("shoot", ShootRun)
    /\ UNCHANGED <<formVars, disk, gpgVars, bookVars, vaultVars, faultVars>>

Missing(fs) == {f \in fs \cap Things : disk[f] = "absent"}

\* What the flags of root.py leave out, and the steps they leave, in order.
\* On a phone a script takes the place of systemd, there is no key and no
\* launcher, the KB goes to SQLite whatever the flags, and nothing follows.
Skipped(flags) ==
    LET phone == "termux" \in flags IN
       (IF "skip_pg" \in flags THEN {"schema", "cmb"} ELSE {})
  \cup (IF "skip_pg" \in flags /\ ~phone THEN {"kb"} ELSE {})
  \cup (IF "skip_socket" \in flags \/ phone THEN {"socket"} ELSE {})
  \cup (IF "skip_gpg" \in flags \/ phone THEN {"gpg"} ELSE {})
  \cup (IF "no_chain" \in flags \/ phone THEN {"chain"} ELSE {})
  \cup (IF phone THEN {"launcher"} ELSE {"manager"})

RootRun(flags) ==
    LET left == {i \in DOMAIN RootSteps : RootSteps[i] \notin Skipped(flags)}
    IN  [k \in 1 .. Cardinality(left) |-> RootSteps[Sorted(left)[k]]]

StartRoot == \E flags \in SUBSET Flags :
    /\ Begin("root", RootRun(flags))
    /\ excused' = excused \cup Missing(Skipped(flags))
    /\ UNCHANGED <<formVars, disk, gpgVars, bookVars, vaultVars, trouble>>

At(p, s) == prog = p /\ todo # <<>> /\ Head(todo) = s

\* The run goes on with `rest`, and is over when nothing is left.
Proceed(rest) ==
    /\ todo' = rest
    /\ prog' = IF rest = <<>> THEN "none" ELSE prog
    /\ IF rest = <<>> THEN email' = Local /\ named' = FALSE /\ fp' = 0
                      ELSE UNCHANGED formVars

Continue == Proceed(Tail(todo))
Quit     == Proceed(<<>>)

Fault == trouble < MaxTrouble /\ trouble' = trouble + 1
Fine  == UNCHANGED faultVars

(***************************************************************************)
(* Steps that put something in the home directory.                         *)
(***************************************************************************)
Written(fs) == [f \in Things |-> IF f \in fs THEN "whole" ELSE disk[f]]
\* Written only when there is no such file, whole or not.
Kept(f)     == [disk EXCEPT ![f] = IF @ = "absent" THEN "whole" ELSE @]

Only == UNCHANGED <<gpgVars, bookVars, vaultVars>>

\* A step that leaves the directory as `after`, or fails: passed over by
\* seed.py and by a step that looks after itself, the end of root.py otherwise.
Leaves(after)  == /\ disk' = after /\ Continue /\ trouble' = trouble /\ Only
                  /\ excused' = {f \in excused : after[f] = "absent"}
PassedOver(fs) == disk' = disk /\ Fault /\ excused' = excused \cup Missing(fs) /\ Continue /\ Only
GoesOn         == disk' = disk /\ Fault /\ excused' = excused /\ Continue /\ Only
GivesUp        == disk' = disk /\ Fault /\ excused' = excused /\ Quit /\ Only

\* The launcher is written under WSL, where the one Windows user has a desktop;
\* without them, and elsewhere, the step is left without a word.
Launcher ==
    \/ Wsl /\ Leaves(Written({"launcher"}))
    \/ disk' = disk /\ trouble' = trouble /\ Continue /\ Only
       /\ excused' = excused \cup Missing({"launcher"})

RootDirs      == At("root", "dirs") /\ (Leaves(Written({"dirs"})) \/ GivesUp)
RootTelemetry == At("root", "telemetry") /\ (Leaves(Kept("telemetry")) \/ GivesUp)
RootDeps      == At("root", "deps") /\ (Leaves(Written({"deps"})) \/ PassedOver({"deps"}))
RootSchema    == At("root", "schema") /\ (Leaves(Written({"schema"})) \/ GivesUp)
RootSocket    == At("root", "socket") /\ (Leaves(Written({"socket"})) \/ PassedOver({"socket"}))
RootManager   == At("root", "manager") /\ (Leaves(disk) \/ GivesUp)
RootCmb       == At("root", "cmb") /\ (Leaves(Written({"schema", "cmb"})) \/ GivesUp)
RootKb        == At("root", "kb") /\ (Leaves(Written({"schema", "kb"})) \/ GivesUp)
RootPath      == At("root", "path") /\ (Leaves(Written({"path"})) \/ GivesUp)
RootIdentity  == At("root", "identity") /\ (Leaves(Kept("identity")) \/ PassedOver({"identity"}))
RootLauncher  == At("root", "launcher") /\ (Launcher \/ (Wsl /\ GivesUp))

\* Vault.init: vault.key only if there is none, then Fernet of what is there,
\* which raises on a file cut short; then the database, which the other
\* programs share.
RootVault ==
    /\ At("root", "vaultkey")
    /\ IF disk["vaultkey"] = "torn"
       THEN disk' = disk /\ Quit /\ Fine /\ Only
       ELSE Leaves(Kept("vaultkey")) \/ GivesUp

RootVersion ==
    /\ At("root", "version")
    /\ disk' = Written({"version"})
    /\ pinned' = pinned \cup {"root"}
    /\ Continue /\ Fine
    /\ UNCHANGED <<gpgVars, owner, vaultVars>>

\* os.execv: the process becomes shoot.py.
RootChain ==
    /\ At("root", "chain")
    /\ prog' = "shoot" /\ todo' = ShootRun
    /\ UNCHANGED <<formVars, disk, gpgVars, bookVars, vaultVars, faultVars>>

SeedDirs      == At("seed", "dirs") /\ (Leaves(Written({"dirs"})) \/ PassedOver({"dirs"}))
SeedTelemetry == At("seed", "telemetry") /\ (Leaves(Kept("telemetry")) \/ PassedOver({"telemetry"}))
SeedDeps      == At("seed", "deps") /\ (Leaves(Written({"deps"})) \/ PassedOver({"deps"}))
SeedSchema    == At("seed", "schema") /\ (Leaves(Written({"schema"})) \/ PassedOver({"schema"}))
SeedOllama    == At("seed", "ollama") /\ (Leaves(Written({"ollama"})) \/ PassedOver({"ollama"}))
SeedSocket    == At("seed", "socket") /\ (Leaves(Written({"socket"})) \/ PassedOver({"socket"}))
SeedCmb       == At("seed", "cmb") /\ (Leaves(Written({"schema", "cmb"})) \/ PassedOver({"cmb"}))
SeedKb        == At("seed", "kb") /\ (Leaves(Written({"schema", "kb"})) \/ PassedOver({"kb"}))
SeedEmbed     == At("seed", "embed") /\ (Leaves(Written({"embed"})) \/ PassedOver({"embed"}))
SeedPath      == At("seed", "path") /\ (Leaves(Written({"path"})) \/ PassedOver({"path"}))
SeedLauncher  == At("seed", "launcher") /\ (Launcher \/ (Wsl /\ PassedOver({"launcher"})))
SeedIdentity  == At("seed", "identity") /\ (Leaves(Kept("identity")) \/ PassedOver({"identity"}))
SeedEnv       == At("seed", "env") /\ (Leaves(Written({"env"})) \/ PassedOver({"env"}))
SeedMcp       == At("seed", "mcp") /\ (Leaves(Written({"mcp"})) \/ PassedOver({"mcp"}))
SeedHooks     == At("seed", "hooks") /\ (Leaves(Written({"hooks"})) \/ PassedOver({"hooks"}))

\* git refuses to clone over what an interrupted clone left.
SeedGrove ==
    /\ At("seed", "grove")
    /\ \/ disk["grove"] # "torn" /\ Leaves(Kept("grove"))
       \/ disk["grove"] = "torn" /\ Leaves(disk)
       \/ PassedOver({"grove"})

(***************************************************************************)
(* GPG keys.                                                               *)
(***************************************************************************)
\* The profile keeps the first fingerprint it was given.
ToProfile(k) == profile' = IF profile = 0 THEN k ELSE profile

Holding(k) == fp' = k /\ UNCHANGED <<email, named>>

\* gpg may make the key or not (and never beyond the bound); the caller takes
\* the first with that address.
MakeKey(e, ks) ==
    \/ ks = Append(keys, e) /\ Len(keys) < MaxKeys /\ UNCHANGED trouble
    \/ ks = keys /\ (Fault \/ (Len(keys) = MaxKeys /\ UNCHANGED trouble))

\* Any secret key will do for root.py; it makes one only when there is none.
RootGpg ==
    /\ At("root", "gpg")
    /\ \/ /\ keys # <<>> \/ MaxKeys > 0
          /\ keys' = IF keys = <<>> THEN <<Local>> ELSE keys
          /\ ToProfile(1)
          /\ Continue /\ UNCHANGED trouble
       \/ keys = <<>> /\ Fault /\ Quit /\ UNCHANGED gpgVars
    /\ UNCHANGED <<disk, bookVars, vaultVars, excused>>

\* A key already made out to the address is taken again.
SeedGpg ==
    /\ At("seed", "gpg")
    /\ IF FirstKey(keys, email) # 0
       THEN keys' = keys /\ UNCHANGED trouble
       ELSE \E ks \in {keys, Append(keys, email)} : MakeKey(email, ks) /\ keys' = ks
    /\ ToProfile(FirstKey(keys', email))
    /\ Holding(FirstKey(keys', email))
    /\ prog' = prog /\ todo' = Tail(todo)
    /\ UNCHANGED <<disk, bookVars, vaultVars, excused>>

\* page_pgp_create always makes a key, and takes the first with the address.
ShootCreate ==
    /\ At("shoot", "create")
    /\ \E e \in Emails : \E ks \in {keys, Append(keys, e)} :
         /\ MakeKey(e, ks)
         /\ keys' = ks
         /\ ToProfile(FirstKey(ks, e))
         /\ email' = e /\ named' = TRUE /\ fp' = FirstKey(ks, e)
    /\ prog' = prog /\ todo' = Tail(todo)
    /\ UNCHANGED <<disk, bookVars, vaultVars, excused>>

(***************************************************************************)
(* The vault: .master.key and the credentials table of vault.db.           *)
(***************************************************************************)
Usable == disk["master"] = "whole" /\ disk["table"] = "whole"

VaultWrite(k) ==
    /\ creds'    = IF Usable THEN creds \cup {k} ELSE creds
    /\ accepted' = IF Usable THEN accepted \cup {k} ELSE accepted

VaultInitFresh == disk' = Written({"master", "table"}) /\ creds' = {}

\* A new master key reads nothing of what an earlier one has encrypted.
VaultInit ==
    /\ disk'  = [Kept("master") EXCEPT !["table"] = "whole"]
    /\ creds' = IF disk["master"] = "absent" THEN {} ELSE creds

StepVault(p) ==
    /\ At(p, "vault")
    /\ \/ VaultInit /\ trouble' = trouble /\ excused' = excused \ {"master", "table"}
       \/ Fault /\ excused' = excused \cup Missing({"master", "table"}) /\ UNCHANGED <<disk, creds>>
    /\ Continue
    /\ UNCHANGED <<gpgVars, bookVars, accepted>>

SeedVault  == StepVault("seed")
ShootVault == StepVault("shoot")

(***************************************************************************)
(* The pages.                                                              *)
(***************************************************************************)
Turn == Continue /\ UNCHANGED <<disk, gpgVars, bookVars, vaultVars, faultVars>>
Stop == Quit     /\ UNCHANGED <<disk, gpgVars, bookVars, vaultVars, faultVars>>

\* Faulty: the database must be there, which only a later step makes.
PreflightStrict ==
    /\ At("seed", "preflight")
    /\ IF disk["schema"] = "whole" THEN Turn ELSE Stop

\* Without PostgreSQL seed.py exits, once it has tried to install it and to
\* create the database; Ollama is optional.
Preflight ==
    /\ At("seed", "preflight")
    /\ \/ Turn
       \/ Fault /\ Quit
          /\ UNCHANGED <<disk, gpgVars, bookVars, vaultVars, excused>>

\* The four things.  An API key that answers is written to the vault at once,
\* before the step that makes the vault.
Gate(withName) ==
    /\ At("seed", "gate")
    /\ email' \in Emails /\ named' = withName /\ fp' = fp
    /\ UNCHANGED vaultVars \/ VaultWrite("provider")
    /\ prog' = prog /\ todo' = Tail(todo)
    /\ UNCHANGED <<disk, gpgVars, bookVars, faultVars>>

Age      == At("seed", "age") /\ Turn
Talk     == At("seed", "talk") /\ Turn
Features == At("seed", "features") /\ Turn

\* The welcome card takes the first word of the name: without one, the end.
Cards ==
    /\ At("seed", "cards")
    /\ IF named THEN Leaves(Written({"cards"})) ELSE Stop

SeedVersion ==
    /\ At("seed", "version")
    /\ disk' = Written({"version"})
    /\ pinned' = pinned \cup {"seed"}
    /\ Continue /\ Fine
    /\ UNCHANGED <<gpgVars, owner, vaultVars>>

\* The boot config, completed, with the key of this run.
SaveConfig(p) ==
    /\ disk' = Written({Config(p)})
    /\ owner' = [owner EXCEPT ![p] = [email |-> email, key |-> fp]]
    /\ Continue /\ Fine
    /\ UNCHANGED <<gpgVars, pinned, vaultVars>>

SeedConfig  == At("seed", "config") /\ SaveConfig("seed")
\* shoot.py asks for the agent's name at its very end, and raises without one:
\* its shell has it from the profile seed.py writes, or from the person, or not.
ShootConfig == At("shoot", "config") /\ (SaveConfig("shoot") \/ Stop)

\* The agent holds the key or the passphrase is right: the run goes on.
Splash   == At("seed", "splash") /\ (Turn \/ (owner["seed"].key # 0 /\ Stop))
PgpAuth  == At("shoot", "auth") /\ (Turn \/ Stop)

\* A returning run saves the config again, with the time, and in shoot.py
\* with the key it had to make.
SeedStamp  == At("seed", "stamp") /\ Leaves(Written({"seedcfg"}))
ShootStamp ==
    /\ At("shoot", "stamp")
    /\ IF named THEN SaveConfig("shoot") ELSE Leaves(Written({"shootcfg"}))

BootCheck  == At("shoot", "check") /\ Turn
BootPage   == At("shoot", "boot") /\ Turn
VideoPage  == At("shoot", "video") /\ Turn
Welcome    == At("shoot", "welcome") /\ Turn
Covenant   == At("shoot", "covenant") /\ Turn
Legal      == At("shoot", "legal") /\ (Turn \/ Stop)
PathSelect == At("shoot", "paths") /\ Turn

\* Whoever quits FRANK is taken on to the config, as if all had been done.
ToConfig == Proceed(<<"config", "open">>)
            /\ UNCHANGED <<disk, gpgVars, bookVars, vaultVars, faultVars>>
Frank  == At("shoot", "frank") /\ (Turn \/ ToConfig)
Stands == At("shoot", "stands") /\ (Turn \/ ToConfig)

Huginn ==
    /\ At("shoot", "huginn")
    /\ UNCHANGED vaultVars \/ ("groq" \notin creds /\ VaultWrite("groq"))
    /\ Continue
    /\ UNCHANGED <<disk, gpgVars, bookVars, faultVars>>

\* The dashboard, if it is there: the end of the run either way.
SeedOpen  == At("seed", "open") /\ Turn
ShootOpen == At("shoot", "open") /\ Turn

(***************************************************************************)
(* A run interrupted: closed, killed or out of power.                      *)
(***************************************************************************)
Cut(f) == [disk EXCEPT ![f] = IF @ = "absent" THEN "torn" ELSE @]

\* What the step under way may leave behind.
Halfway ==
    LET s == Head(todo) IN
    CASE s \in {"telemetry", "vaultkey", "identity", "grove"} -> {Cut(s)}
      [] s = "vault"   -> {Cut("master"), Kept("master")}
      [] s = "path"    -> {[disk EXCEPT !["path"] = "absent"]}
      [] s = "version" -> {[disk EXCEPT !["version"] = "torn"]}
      [] s \in {"config", "stamp"} -> {[disk EXCEPT ![Config(prog)] = "torn"]}
      [] OTHER -> {}

\* gpg may have finished the key the run was waiting for.
Meanwhile ==
    CASE Len(keys) = MaxKeys           -> {keys}
      [] At("root", "gpg")             -> {keys, IF keys = <<>> THEN <<Local>> ELSE keys}
      [] At("seed", "gpg")             -> {keys, IF FirstKey(keys, email) = 0
                                                 THEN Append(keys, email) ELSE keys}
      [] At("shoot", "create")         -> {keys} \cup {Append(keys, e) : e \in Emails}
      [] OTHER                         -> {keys}

Interrupt ==
    /\ todo # <<>> /\ Fault
    /\ disk' \in Halfway \cup {disk}
    /\ keys' \in Meanwhile
    /\ excused' = excused \cup {f \in Things : disk[f] # "absent" /\ disk'[f] = "absent"}
    /\ Quit
    /\ UNCHANGED <<profile, bookVars, vaultVars>>

(***************************************************************************)
(* The system.                                                             *)
(***************************************************************************)
RootStep ==
    \/ RootDirs \/ RootTelemetry \/ RootDeps \/ RootGpg \/ RootVault \/ RootSchema
    \/ RootSocket \/ RootManager \/ RootCmb \/ RootKb \/ RootVersion \/ RootPath \/ RootIdentity
    \/ RootLauncher \/ RootChain

SeedStep ==
    \/ Preflight \/ Gate(FALSE) \/ Gate(TRUE) \/ Age
    \/ SeedDirs \/ SeedTelemetry \/ SeedDeps \/ SeedGpg \/ SeedVault \/ SeedSchema
    \/ SeedOllama \/ SeedSocket \/ SeedCmb \/ SeedKb \/ SeedEmbed \/ SeedGrove \/ SeedPath
    \/ SeedLauncher \/ SeedIdentity \/ SeedEnv \/ SeedMcp \/ SeedHooks
    \/ Talk \/ Features \/ Cards \/ SeedVersion \/ SeedConfig
    \/ Splash \/ SeedStamp \/ SeedOpen

ShootStep ==
    \/ BootCheck \/ BootPage \/ VideoPage \/ Welcome \/ Covenant \/ Legal \/ PathSelect
    \/ ShootCreate \/ Frank \/ ShootVault \/ Huginn \/ Stands \/ ShootConfig
    \/ PgpAuth \/ ShootStamp \/ ShootOpen

Step == RootStep \/ SeedStep \/ ShootStep
InstallNext == StartSeed \/ StartDev \/ StartShoot \/ StartRoot \/ Step \/ Interrupt

InstallSpec == InstallInit /\ [][InstallNext]_installVars

\* The person keeps trying: starts each of the two again and again, lets a run
\* go on, and sooner or later gives a name, agrees and lets the pages be, and
\* starts shoot.py from a shell that has read the profile, once it is written.
Fairness ==
    /\ SF_installVars(StartSeed) /\ SF_installVars(StartShoot)
    /\ WF_installVars(Step)
    /\ SF_installVars(Gate(TRUE)) /\ SF_installVars(Legal /\ Turn)
    /\ SF_installVars(disk["env"] = "whole" /\ At("shoot", "config") /\ SaveConfig("shoot"))

FairSpec == InstallSpec /\ Fairness

(***************************************************************************)
(* Properties.                                                             *)
(***************************************************************************)

\* An API key the vault could hold when it was taken can be decrypted for
\* ever: no run of any of the programs, no re-run and no interrupted one puts
\* another .master.key in its place or lets it be cut short (_vault_init).
KeyKept == accepted \subseteq creds

\* seed.py and shoot.py, run in any order and any number of times with the
\* same address, record the same GPG key, and one made out to that address,
\* although shoot.py makes a new one each time (gpg_create_key).
OneKeyPerOwner ==
    \A p, q \in {"seed", "shoot"} :
        (owner[p].key # 0 /\ owner[q].key # 0 /\ owner[p].email = owner[q].email)
            => /\ owner[p].key = owner[q].key
               /\ keys[owner[p].key] = owner[p].email

\* What the version file of a program stands for.
Required(p) ==
    IF p = "root" THEN {"dirs", "telemetry", "deps", "vaultkey", "schema", "socket", "cmb", "kb"}
    ELSE Things \ {"vaultkey", "version", "shootcfg", "seedcfg"}

\* Once a program has written the version file everything it installs is
\* there, however often it was interrupted before: but for the steps that were
\* skipped, and those that failed in a program that passes over failures.
PinnedIsInstalled ==
    \A p \in pinned : \A f \in Required(p) : disk[f] # "absent" \/ f \in excused

\* Whoever keeps trying is done one day: both boot configs end up whole and
\* stay so, although a run may be interrupted while it writes them, which
\* makes the next run a first one again (is_first_run, needs_boot).  But
\* shoot.py may never get there when seed.py passed over the one step that
\* gives the shell an agent name, which no later run of it makes up for.
Settles ==
    <>[](/\ disk["seedcfg"] = "whole"
         /\ \/ disk["shootcfg"] = "whole"
            \/ disk["env"] = "absent" /\ "env" \in excused)
=============================================================================

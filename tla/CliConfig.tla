------------------------------ MODULE CliConfig ------------------------------
(***************************************************************************)
(* The settings of the command line: a file, the token file it names, and  *)
(* the commands that write them.  A command reads the file under the       *)
(* environment and the options, and replaces a file by renaming a complete *)
(* temporary one; commands of several shells overlap and are interrupted.  *)
(* api_url stands for timeout_seconds too: both are treated alike.         *)
(***************************************************************************)
EXTENDS Integers, Null

CONSTANTS
  Shells,     \* processes of the command line, one command each
  Options,    \* settings given by option: None, or a value, for each field
  Envs,       \* settings given by the environment
  Urls,       \* API addresses
  Url,        \* the built-in one
  TokenFiles, \* paths of token files
  TokenFile,  \* the default one
  Bundle      \* the path of a CA bundle

VARIABLES
  file,    \* the config file
  secret,  \* what each token file holds: nothing, or the token it was given
  present, \* whether the CA bundle is there
  shell    \* the command each shell runs

configVars == <<file, secret, present, shell>>

Fields == {"url", "token_file", "ca_bundle"}
Settings == [url : Urls, token_file : TokenFiles \cup {None}, ca_bundle : {Bundle, None}]
Given == [url : Urls \cup {None}, token_file : TokenFiles \cup {None},
          ca_bundle : {Bundle, None}]
Earlier == "earlier"
Nothing == [url |-> None, token_file |-> None, ca_bundle |-> None]
Builtin == [url |-> Url, token_file |-> None, ca_bundle |-> None]

\* ghost: whether another shell has replaced a file since the command began
Ready == [kind |-> "none", pc |-> "ready", option |-> Nothing, env |-> Nothing, force |-> FALSE,
          settings |-> Builtin, target |-> None, before |-> None, raced |-> FALSE]

\* What the constants have to be.
ASSUME ConfigAssumption ==
  /\ Url \in Urls /\ None \notin Settings /\ TokenFile \in TokenFiles /\ None \notin TokenFiles
  /\ Options \subseteq Given /\ Envs \subseteq Given

\* Mutant: what was not given counts as well.
OverAlways(upper, lower) == upper

Over(upper, lower) == [f \in Fields |-> IF upper[f] # None THEN upper[f] ELSE lower[f]]

Ends(s, pc) == [shell EXCEPT ![s] = IF pc = "stopped" THEN [Ready EXCEPT !.pc = pc]
                                      ELSE [@ EXCEPT !.pc = pc]]

\* Every other command under way has been overtaken.
Overtaken(shells, s) ==
  [t \in Shells |-> IF t = s \/ shells[t].pc \in {"ready", "stopped"} THEN shells[t]
                   ELSE [shells[t] EXCEPT !.raced = TRUE]]

-----------------------------------------------------------------------------
(* config init, config set, config token-set                               *)

Enter(s, kind, option, env, force) ==
  /\ shell[s].pc = "ready"
  /\ kind = "init" => option.ca_bundle = None
  /\ kind = "token" => option.url = None /\ option.ca_bundle = None
  /\ kind = "set" => ~force
  /\ kind = "init" => env = Nothing
  /\ shell' = [shell EXCEPT ![s] =
       [Ready EXCEPT !.kind = kind, !.option = option, !.env = env, !.force = force,
                     !.before = file,
                     !.pc = IF kind = "init" THEN "check" ELSE "load",
                     !.settings = IF kind = "init" THEN Over(option, Builtin) ELSE Builtin]]
  /\ UNCHANGED <<file, secret, present>>

\* load_cli_config: the environment goes before the file, and the file before what is built in.
Loaded(env) == Over(env, IF file = None THEN Builtin ELSE file)

Load(s) ==
  LET loaded == Loaded(shell[s].env)
      paths == <<shell[s].option.token_file, loaded.token_file, TokenFile>>
      named == CHOOSE p \in TokenFiles :
                 \E n \in 1 .. 3 : paths[n] = p /\ \A k \in 1 .. n - 1 : paths[k] = None
  IN /\ shell[s].pc = "load"
     /\ loaded.ca_bundle # None => present
     /\ shell' = [shell EXCEPT
          ![s].before = file,
          ![s].settings = IF shell[s].kind = "set" THEN Over(shell[s].option, loaded) ELSE loaded,
          ![s].target = IF shell[s].kind = "token" THEN named ELSE None,
          ![s].pc = IF shell[s].kind = "token" THEN "token" ELSE "check"]
     /\ UNCHANGED <<file, secret, present>>

\* The CA bundle is not there.
LoadFails(s) ==
  /\ shell[s].pc = "load"
  /\ Loaded(shell[s].env).ca_bundle # None /\ ~present
  /\ shell' = Ends(s, "stopped")
  /\ UNCHANGED <<file, secret, present>>

\* write_token_file: refuses to replace a token unless forced.
WriteToken(s) ==
  LET path == shell[s].target
  IN /\ shell[s].pc = "token"
     /\ IF secret[path] # None /\ ~shell[s].force
        THEN shell' = Ends(s, "stopped") /\ UNCHANGED secret
        ELSE /\ secret' = [secret EXCEPT ![path] = s]
             /\ shell' = Overtaken([shell EXCEPT ![s].pc = "name"], s)
     /\ UNCHANGED <<file, present>>

\* Mutant: the settings do not come to name the token file.
NamedAlready(s) == TRUE

Named(s) == shell[s].settings.token_file = shell[s].target

\* config token-set writes the settings only when they name another file.
NameToken(s) ==
  /\ shell[s].pc = "name"
  /\ shell' = IF Named(s) THEN Ends(s, "done")
              ELSE [shell EXCEPT ![s].settings.token_file = shell[s].target, ![s].pc = "check"]
  /\ UNCHANGED <<file, secret, present>>

\* Mutant: an existing file is replaced all the same.
SparedNever(s) == FALSE

Spared(s) == shell[s].kind = "init" /\ ~shell[s].force /\ file # None

\* write_cli_config, up to the file it creates.
Check(s) ==
  /\ shell[s].pc = "check"
  /\ shell' = Ends(s, IF Spared(s) \/ (shell[s].settings.ca_bundle # None /\ ~present)
                      THEN "stopped" ELSE "replace")
  /\ UNCHANGED <<file, secret, present>>

\* Mutant: the CA bundle is not among the lines.
LinesWithoutBundle(settings) == [settings EXCEPT !.ca_bundle = None]

\* The lines of the file.
Lines(settings) == settings

\* _atomic_write: a temporary file that was filled and synced takes the name of the file.
Replace(s) ==
  /\ shell[s].pc = "replace"
  /\ file' = Lines(shell[s].settings)
  /\ shell' = Overtaken(Ends(s, "done"), s)
  /\ UNCHANGED <<secret, present>>

\* The process dies at any step; a temporary file may stay behind.
Interrupt(s) ==
  /\ shell[s].pc \notin {"ready", "done", "stopped"}
  /\ shell' = Ends(s, "stopped")
  /\ UNCHANGED <<file, secret, present>>

\* Someone installs or removes the CA bundle.
MoveBundle == present' = ~present /\ UNCHANGED <<file, secret, shell>>

-----------------------------------------------------------------------------
ConfigInit ==
  /\ file \in Settings \cup {None}
  /\ secret \in [TokenFiles -> {Earlier, None}]
  /\ present \in BOOLEAN
  /\ shell = [s \in Shells |-> Ready]

ConfigNext ==
  \/ \E s \in Shells :
       \/ \E kind \in {"init", "set", "token"}, option \in Options, env \in Envs :
            \E force \in BOOLEAN : Enter(s, kind, option, env, force)
       \/ Load(s) \/ LoadFails(s) \/ WriteToken(s) \/ NameToken(s)
       \/ Check(s) \/ Replace(s) \/ Interrupt(s)
  \/ MoveBundle

ConfigSpec == ConfigInit /\ [][ConfigNext]_configVars

-----------------------------------------------------------------------------
ConfigTypeOK ==
  /\ file \in Settings \cup {None}
  /\ secret \in [TokenFiles -> Shells \cup {Earlier, None}]
  /\ present \in BOOLEAN
  /\ \A s \in Shells : shell[s].settings \in Settings /\ shell[s].option \in Given
                         /\ shell[s].env \in Given

\* config init without --force replaces no file that was there when it was entered.
\* (write_cli_config)
InitSpares ==
  \A s \in Shells :
    shell[s].kind = "init" /\ ~shell[s].force /\ shell[s].before # None => shell[s].pc # "done"

\* A finished command that no other overtook has changed the settings it was given, by option
\* or by the environment (which it makes permanent), and has kept the others; token-set also
\* sets token_file.  (config_set, config_token_set, load_cli_config)
RestIsKept ==
  \A s \in Shells :
    shell[s].pc = "done" /\ ~shell[s].raced /\ shell[s].kind # "init"
        /\ shell[s].before \in Settings /\ file \in Settings
      => \A f \in Fields :
           file[f] # shell[s].before[f] =>
             \/ shell[s].option[f] # None \/ shell[s].env[f] # None
             \/ f = "token_file" /\ shell[s].kind = "token"

\* When token-set has finished and no other command overtook it, a command without overrides
\* finds the new token.  (config_token_set)
TokenIsFound ==
  \A s \in Shells :
    shell[s].pc = "done" /\ ~shell[s].raced /\ shell[s].kind = "token"
        /\ shell[s].env.token_file = None
      => /\ file \in Settings
         /\ file.token_file \in TokenFiles
         /\ secret[file.token_file] = s

\* What the commands promise.
SettingsHold == InitSpares /\ RestIsKept /\ TokenIsFound
=============================================================================

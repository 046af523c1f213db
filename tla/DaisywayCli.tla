---------------------------- MODULE DaisywayCli ----------------------------
(***************************************************************************)
(* The command line of src/main.rs: main parses the arguments, initialises *)
(* logging (Cli::init_logging with log_level_filter) and dispatches on the *)
(* subcommand (Cli::run, Commands::run).  Of the subcommands, `exchange`   *)
(* starts the daemon the other modules model; `manpage` looks up the       *)
(* clap command whose page it shows (ManpageCommand::selected_command).    *)
(*                                                                         *)
(* clap's parsing is taken as given: the arguments are any combination     *)
(* clap accepts, with at most one of --log-level, --verbose and --quiet    *)
(* (their argument group).  Output and the `man` process are abstracted to *)
(* the command's success.  The exchange command runs the start-up of       *)
(* DaisywaySetup.                                                          *)
(***************************************************************************)
EXTENDS Naturals, DaisywaySetup

\* log::LevelFilter, and the LogLevel values of --log-level.
LevelFilter == {"Off", "Error", "Warn", "Info", "Debug", "Trace"}
LogLevel == {"Nothing", "Error", "Warn", "Info", "Debug", "Trace"}

\* The subcommands clap derives from Commands (kebab case), and the help
\* subcommand clap adds.
Subcommands == {"exchange", "manpage", "export-manpages", "shell-completion", "help"}

ManpageSelection ==
    {"Daisyway", "Exchange", "Manpage", "ExportManpages", "ShellCompletion", "Help"}

None == "none"

\* The directives of an env_logger filter that decide what daisyway logs:
\* the global level (no module name) and a `daisyway` module directive,
\* each absent (None) or a level filter.
Directives == [global: LevelFilter \cup {None}, daisyway: LevelFilter \cup {None}]
NoDirectives == [global |-> None, daisyway |-> None]

\* RUST_LOG's directives as env_logger parses them (none when unset).  An
\* empty RUST_LOG, or one whose directives all fail to parse, has none;
\* "off", "error" and "debug" stand for the levels, with or without a
\* `daisyway=` directive.  (A RUST_LOG naming other modules only is left
\* out.)
RustLogValues ==
    [global: {None, "Off", "Error", "Debug"}, daisyway: {None, "Off", "Debug"}]

\* Arguments clap accepts, with the environment; only the manpage command
\* has a selection.
Args ==
    {a \in [command: Subcommands \ {"help"},
            selection: ManpageSelection \cup {None},
            logLevel: LogLevel \cup {None},
            verbose: BOOLEAN,
            quiet: BOOLEAN,
            rustLogSet: BOOLEAN,
            rustLog: RustLogValues] :
        /\ ~a.rustLogSet => a.rustLog = NoDirectives
        /\ a.command = "manpage" <=> a.selection # None
        /\ \/ a.logLevel = None /\ ~(a.verbose /\ a.quiet)
           \/ a.logLevel # None /\ ~a.verbose /\ ~a.quiet}

VARIABLES
    args,       \* the parsed command line and environment
    filter,     \* the logger's directives; none until init_logging, which
                \* never installs a filter without a directive
    outcome     \* "pending", or what the command did

vars == <<args, filter, outcome, cfg, pc, psk, sink, startup>>

-----------------------------------------------------------------------------

\* From<LogLevel> for log::LevelFilter.
ToLevelFilter(l) == IF l = "Nothing" THEN "Off" ELSE l

\* Cli::log_level_filter: the first of --verbose, --quiet, --log-level.
LogLevelFilter(a) ==
    IF a.verbose THEN "Info"
    ELSE IF a.quiet THEN "Warn"
    ELSE IF a.logLevel # None THEN ToLevelFilter(a.logLevel)
    ELSE None

\* Builder::filter_level: the global directive is replaced; a module
\* directive stays.
FilterLevel(d, level) == [d EXCEPT !.global = level]

\* Cli::init_logging: Builder::from_default_env takes RUST_LOG's
\* directives; Warn is the global level when RUST_LOG is unset; a level
\* from the command line replaces the global level; try_init builds the
\* filter, which is Error alone when it has no directive at all.
InitFilter(a) ==
    LET env == IF a.rustLogSet THEN a.rustLog
                               ELSE FilterLevel(a.rustLog, "Warn")
        cli == IF LogLevelFilter(a) = None THEN env
                                           ELSE FilterLevel(env, LogLevelFilter(a))
    IN  IF cli = NoDirectives THEN FilterLevel(cli, "Error") ELSE cli

\* clap::Command::find_subcommand.
FindSubcommand(name) == IF name \in Subcommands THEN name ELSE None

\* ManpageCommand::selected_command.
SelectedCommand(sel) ==
    CASE sel = "Daisyway"       -> "daisyway"
      [] sel = "Exchange"       -> FindSubcommand("exchange")
      [] sel = "Manpage"        -> FindSubcommand("manpage")
      [] sel = "ExportManpages" -> FindSubcommand("export-manpages")
      [] sel = "ShellCompletion" -> FindSubcommand("shell-comletion")
      [] sel = "Help"           -> FindSubcommand("help")

Init ==
    /\ args \in Args
    /\ filter = NoDirectives
    /\ outcome = "pending"
    /\ StartupInit

\* main: cli.init_logging().await?
InitLogging ==
    /\ filter = NoDirectives
    /\ filter' = InitFilter(args)
    /\ UNCHANGED <<args, outcome>>
    /\ UNCHANGED startupVars

\* ManpageCommand::run: the command it looks up is unwrapped; rendering the
\* page and running `man` are abstracted to success.
ManpageRun(sel) == IF SelectedCommand(sel) = None THEN "panic" ELSE "manpage"

\* Cli::run and Commands::run: dispatch on the subcommand (clap rejects a
\* command line without one).  The exchange command goes on with the
\* start-up.
Run ==
    /\ filter # NoDirectives
    /\ outcome = "pending"
    /\ outcome' = IF args.command = "manpage" THEN ManpageRun(args.selection)
                                              ELSE args.command
    /\ UNCHANGED <<args, filter>>
    /\ UNCHANGED startupVars

\* ExchangeCommand::run: load the configuration, Daisyway::from_config and
\* the participant's event loop.
Exchange ==
    /\ outcome = "exchange"
    /\ StartupNext
    /\ UNCHANGED <<args, filter, outcome>>

\* main: parse, init_logging, run.
Next == InitLogging \/ Run \/ Exchange

Spec == Init /\ [][Next]_vars

=============================================================================

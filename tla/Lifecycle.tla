----------------------------- MODULE Lifecycle ------------------------------
(***************************************************************************)
(* The emulator process: main.cpp, the command line (cli.cpp), the signal  *)
(* handlers (host_signal.cpp), the raw terminal (terminal.cpp) and the     *)
(* loop of runner.cpp.  One action is one call into the host, which may    *)
(* fail; a SIGINT or SIGTERM may arrive between any two of them.  The      *)
(* machine inside the loop is abstract here: an iteration may end in a     *)
(* queue error or a terminal error.                                        *)
(***************************************************************************)
EXTENDS Boot, Sequences

CONSTANT CommandLine     \* argument vectors, argv[0] left out

VARIABLES
  pc,          \* the next call of main
  machine,     \* what build_machine returned, once it has
  termios,     \* terminal mode: "cooked" or "raw"
  nonblock,    \* O_NONBLOCK on the input
  saved,       \* which of the two activate_raw has saved
  handler,     \* disposition of each signal: "default" or "stop"
  installed,   \* g_installed
  stop,        \* g_stop_requested
  run,         \* exit code of run_machine
  failed,      \* host calls made to restore the host that failed
  exit         \* exit code of the process, or "running"

lifecycleVars == <<pc, machine, termios, nonblock, saved, handler, installed, stop, run,
                   failed, exit>>

Signal == {"SIGINT", "SIGTERM"}
NoMachine == [code |-> "none"]

LifecycleInit ==
  /\ pc = "parse_cli" /\ machine = NoMachine
  /\ termios = "cooked" /\ nonblock = FALSE /\ saved = {}
  /\ handler = [s \in Signal |-> "default"] /\ installed = FALSE /\ stop = FALSE
  /\ run = "none" /\ failed = {} /\ exit = "running"

-----------------------------------------------------------------------------
(* parse_cli.                                                              *)

ValueOption == {"--bios", "--kernel", "--disk", "--net", "--bios-format", "--kernel-format"}
OptionLike == ValueOption \cup {"--help", "--other"}
FormatOption == {"--bios-format", "--kernel-format"}

(* One argument at index i of argv, with what was parsed so far.           *)
parse_argument(argv, p) ==
  LET i == p.index
      argument == argv[i]
      value == argv[i + 1]
  IN  CASE argument \in {"--help", "-h"} -> [p EXCEPT !.result = "help"]
        [] argument \notin OptionLike -> [p EXCEPT !.result = "error"]
        [] argument \in p.seen -> [p EXCEPT !.result = "error"]
        [] i = Len(argv) -> [p EXCEPT !.result = "error"]
        [] value = "" -> [p EXCEPT !.result = "error"]
        [] argument \notin ValueOption -> [p EXCEPT !.result = "error"]
        [] argument \in FormatOption /\ value # "raw" -> [p EXCEPT !.result = "error"]
        [] OTHER -> [p EXCEPT !.index = i + 2, !.seen = @ \cup {argument},
                              !.net = IF argument = "--net" THEN value ELSE @]

parse_cli(argv) ==
  LET start == [index |-> 1, seen |-> {}, net |-> "none", result |-> "parsing"]
      Parsed[n \in 0..Len(argv)] ==
        IF n = 0 THEN start
        ELSE LET p == Parsed[n - 1] IN
             IF p.result # "parsing" \/ p.index > Len(argv) THEN p ELSE parse_argument(argv, p)
      last == Parsed[Len(argv)]
      required == {"--bios", "--kernel", "--disk"}
  IN  IF last.result # "parsing" THEN last
      ELSE [last EXCEPT !.result = IF required \subseteq last.seen THEN "ok" ELSE "error"]

-----------------------------------------------------------------------------
(* main up to the signal handlers.                                         *)

ReturnCode(code) == exit' = code /\ pc' = "returned"
Go(next) == pc' = next /\ UNCHANGED exit
At(step) == exit = "running" /\ pc = step

ParseCli ==
  /\ At("parse_cli")
  /\ \E p \in {parse_cli(argv) : argv \in CommandLine} :
       \/ p.result = "error" /\ ReturnCode("CliUsage") /\ UNCHANGED machine
       \/ p.result = "help" /\ ReturnCode("Success") /\ UNCHANGED machine
       \/ /\ p.result = "ok"
          /\ \E layout \in Layout, disk_opens \in BOOLEAN, image \in Image :
               machine' = build_machine(p.net, layout, disk_opens, image)
          /\ Go("built")
  /\ UNCHANGED <<termios, nonblock, saved, handler, installed, stop, run, failed>>

Built ==
  /\ At("built")
  /\ IF machine.code = "Success" THEN Go("install_int") ELSE ReturnCode(machine.code)
  /\ UNCHANGED <<machine, termios, nonblock, saved, handler, installed, stop, run, failed>>

(* install_host_signal_handlers: the stop flag is cleared before the first *)
(* handler can set it; if the second cannot be installed the first is      *)
(* taken back.                                                             *)
InstallInt ==
  /\ At("install_int")
  /\ stop' = FALSE
  /\ \/ handler' = [handler EXCEPT !["SIGINT"] = "stop"] /\ Go("install_term")
     \/ UNCHANGED handler /\ ReturnCode("Resource")
  /\ UNCHANGED <<machine, termios, nonblock, saved, installed, run, failed>>

mut_InstallTerm ==
  /\ At("install_term")
  /\ \/ /\ handler' = [handler EXCEPT !["SIGTERM"] = "stop"] /\ installed' = TRUE
        /\ Go("isatty")
     \/ UNCHANGED <<handler, installed>> /\ Go("uninstall_int")
  /\ stop' = FALSE
  /\ UNCHANGED <<machine, termios, nonblock, saved, run, failed>>

InstallTerm ==
  /\ At("install_term")
  /\ \/ /\ handler' = [handler EXCEPT !["SIGTERM"] = "stop"] /\ installed' = TRUE
        /\ Go("isatty")
     \/ UNCHANGED <<handler, installed>> /\ Go("uninstall_int")
  /\ UNCHANGED <<machine, termios, nonblock, saved, stop, run, failed>>

UninstallInt ==
  /\ At("uninstall_int")
  /\ \/ handler' = [handler EXCEPT !["SIGINT"] = "default"] /\ UNCHANGED failed
     \/ failed' = failed \cup {"SIGINT"} /\ UNCHANGED handler
  /\ ReturnCode("Resource")
  /\ UNCHANGED <<machine, termios, nonblock, saved, installed, stop, run>>

-----------------------------------------------------------------------------
(* TerminalBackend.                                                        *)

(* activate_raw, one host call per step; a failed one undoes the earlier   *)
(* ones through restore.                                                   *)
IsATty ==
  /\ At("isatty")
  /\ Go("tcgetattr") \/ Go("restore_int")
  /\ UNCHANGED <<machine, termios, nonblock, saved, handler, installed, stop, run, failed>>

SaveTermios ==
  /\ At("tcgetattr")
  /\ \/ saved' = saved \cup {"termios"} /\ Go("getfl")
     \/ UNCHANGED saved /\ Go("restore_int")
  /\ UNCHANGED <<machine, termios, nonblock, handler, installed, stop, run, failed>>

SaveFlags ==
  /\ At("getfl")
  /\ \/ saved' = saved \cup {"flags"} /\ Go("make_raw")
     \/ UNCHANGED saved /\ Go("restore_termios")
  /\ UNCHANGED <<machine, termios, nonblock, handler, installed, stop, run, failed>>

MakeRaw ==
  /\ At("make_raw")
  /\ \/ termios' = "raw" /\ Go("set_nonblock")
     \/ UNCHANGED termios /\ Go("restore_termios")
  /\ UNCHANGED <<machine, nonblock, saved, handler, installed, stop, run, failed>>

mut_SetNonblock ==
  /\ At("set_nonblock")
  /\ \/ nonblock' = TRUE /\ Go("loop")
     \/ UNCHANGED nonblock /\ Go("restore_int")
  /\ UNCHANGED <<machine, termios, saved, handler, installed, stop, run, failed>>

SetNonblock ==
  /\ At("set_nonblock")
  /\ \/ nonblock' = TRUE /\ Go("loop")
     \/ UNCHANGED nonblock /\ Go("restore_termios")
  /\ UNCHANGED <<machine, termios, saved, handler, installed, stop, run, failed>>

(* restore: each call is made even if the other one fails, and neither is  *)
(* ever repeated; the destructor's restore finds nothing saved.            *)
RestoreTermios ==
  /\ At("restore_termios")
  /\ IF "termios" \notin saved THEN UNCHANGED <<termios, failed>>
     ELSE \/ termios' = "cooked" /\ UNCHANGED failed
          \/ failed' = failed \cup {"termios"} /\ UNCHANGED termios
  /\ Go("restore_flags")
  /\ UNCHANGED <<machine, nonblock, saved, handler, installed, stop, run>>

RestoreFlags ==
  /\ At("restore_flags")
  /\ IF "flags" \notin saved THEN UNCHANGED <<nonblock, failed>>
     ELSE \/ nonblock' = FALSE /\ UNCHANGED failed
          \/ failed' = failed \cup {"flags"} /\ UNCHANGED nonblock
  /\ saved' = {}
  /\ Go("restore_int")
  /\ UNCHANGED <<machine, termios, handler, installed, stop, run>>

-----------------------------------------------------------------------------
(* run_machine.                                                            *)

(* The loop test; read_byte and write_bytes repeat a call that a signal    *)
(* interrupted, so a stop request is only seen here.                       *)
Loop ==
  /\ At("loop")
  /\ IF stop THEN run' = "Success" /\ Go("restore_termios")
     ELSE Go("process_one") /\ UNCHANGED run
  /\ UNCHANGED <<machine, termios, nonblock, saved, handler, installed, stop, failed>>

ProcessOne ==
  /\ At("process_one")
  /\ \/ Go("run_once") /\ UNCHANGED run
     \/ run' = "RuntimeIo" /\ Go("restore_termios")
  /\ UNCHANGED <<machine, termios, nonblock, saved, handler, installed, stop, failed>>

RunOnce ==
  /\ At("run_once")
  /\ \/ Go("loop") /\ UNCHANGED run
     \/ run' = "RuntimeIo" /\ Go("restore_termios")
  /\ UNCHANGED <<machine, termios, nonblock, saved, handler, installed, stop, failed>>

(* restore_host_signal_handlers, then the exit code: failures to restore   *)
(* come first; run is "none" if the terminal could not be made raw.        *)
RestoreInt ==
  /\ At("restore_int")
  /\ \/ handler' = [handler EXCEPT !["SIGINT"] = "default"] /\ UNCHANGED failed
     \/ failed' = failed \cup {"SIGINT"} /\ UNCHANGED handler
  /\ Go("restore_term")
  /\ UNCHANGED <<machine, termios, nonblock, saved, installed, stop, run>>

mut_exit_code(failures) == IF run = "none" THEN "Resource" ELSE run

exit_code(failures) == IF run = "none" \/ failures # {} THEN "Resource" ELSE run

RestoreTerm ==
  /\ At("restore_term")
  /\ \/ handler' = [handler EXCEPT !["SIGTERM"] = "default"] /\ UNCHANGED failed
     \/ failed' = failed \cup {"SIGTERM"} /\ UNCHANGED handler
  /\ installed' = FALSE /\ stop' = FALSE
  /\ ReturnCode(exit_code(failed'))
  /\ UNCHANGED <<machine, termios, nonblock, saved, run>>

(* A signal runs handle_stop_signal or ends the process.                   *)
Deliver(s) ==
  /\ exit = "running"
  /\ IF handler[s] = "stop" THEN stop' = TRUE /\ UNCHANGED <<pc, exit>>
     ELSE exit' = "killed" /\ pc' = "returned" /\ UNCHANGED stop
  /\ UNCHANGED <<machine, termios, nonblock, saved, handler, installed, run, failed>>

(* main once the machine is there: each step is a call the host answers.   *)
HostCalls ==
  \/ Built \/ InstallInt \/ InstallTerm \/ UninstallInt
  \/ IsATty \/ SaveTermios \/ SaveFlags \/ MakeRaw \/ SetNonblock
  \/ Loop \/ ProcessOne \/ RunOnce
  \/ RestoreTermios \/ RestoreFlags \/ RestoreInt \/ RestoreTerm

Main == ParseCli \/ HostCalls

LifecycleNext == Main \/ \E s \in Signal : Deliver(s)

LifecycleSpec == LifecycleInit /\ [][LifecycleNext]_lifecycleVars

-----------------------------------------------------------------------------
(* Whenever build_machine succeeds, RAM holds exactly the three images at  *)
(* their addresses, nothing has overwritten them, the hart starts on the   *)
(* first BIOS byte with a1 on the device tree, and RAM is reached through  *)
(* no device; if it fails, no image byte has been written.                 *)
BootPlaced == machine # NoMachine => MachineLoaded(machine)

(* However the process ends, by a return or by a signal between any two    *)
(* host calls, the terminal is as it was found, unless the host refused a  *)
(* restoring call (terminal.cpp restores before the handlers are removed). *)
TerminalRestored ==
  exit # "running" =>
    /\ termios = "cooked" \/ "termios" \in failed
    /\ nonblock = FALSE \/ "flags" \in failed

(* Success means that help was asked for, or that the machine ran, a stop  *)
(* signal ended it and the terminal and both handlers were restored.       *)
(* CliUsage, Internal and ImageFormat mean the host was never touched.     *)
ExitHonest ==
  /\ exit = "Success" =>
       /\ failed = {} /\ termios = "cooked" /\ ~nonblock
       /\ \A s \in Signal : handler[s] = "default"
       /\ machine = NoMachine \/ run = "Success"
  /\ exit \in {"CliUsage", "Internal", "ImageFormat"} =>
       failed = {} /\ saved = {} /\ run = "none" /\ \A s \in Signal : handler[s] = "default"
  /\ exit = "RuntimeIo" => run = "RuntimeIo" /\ failed = {}

(* A SIGINT or SIGTERM that a handler has taken ends the process, at       *)
(* whatever point of the start-up or of the loop it arrived.               *)
StopHonoured == stop ~> exit # "running"

=============================================================================

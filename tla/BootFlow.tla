------------------------------ MODULE BootFlow ------------------------------
(***************************************************************************)
(* From power-on to a running system, the recovery server or the command   *)
(* line: main_loop() of common/main.c with the recovery button             *)
(* (common/button_cmd.c), the boot menu (cmd/bootmenu.c, common/menu.c)    *)
(* and autoboot (common/autoboot.c).  What is decided depends on the       *)
(* environment, on the button, on the keys of the serial console and on    *)
(* the seconds of a countdown; commands may boot, return or run on.        *)
(***************************************************************************)
EXTENDS Integers, Sequences

CONSTANTS
  Environments,   \* environments, and builds, the board may come up with
  ShortcutKey,    \* bootmenu_conv_shortcut_key(): the number of the entry a
                  \* letter or digit stands for, -1 for the last one
  OtherChars,     \* characters the menu has no use for
  CliDelays,      \* delays the bootmenu command may be given
  NoCommand       \* a variable that is not set, or an empty command

ASSUME BootAssumption ==
  /\ ShortcutKey \in [DOMAIN ShortcutKey -> Nat \cup {-1}]
  /\ (DOMAIN ShortcutKey \cup OtherChars) \cap
       {"none", "enter", "^C", "esc", "[", "O", "~", "^P", "^N"} = {}
  /\ CliDelays \subseteq Int
  /\ \A e \in Environments :
       /\ e.bootdelay \in Int /\ e.default \in Int
       /\ Len(e.entries) \in Nat /\ DOMAIN e.entries = 1 .. Len(e.entries)

VARIABLES
  env,        \* the environment: bootdelay, menu entries, bootmenu_default,
              \* the command of the button, bootcmd; and menu_show, which is
              \* CONFIG_AUTOBOOT_MENU_SHOW, set for this board
  phase,      \* where main_loop() is
  delay,      \* menu->delay, or the countdown of abortboot_single_key()
  active,     \* menu->active
  typed,      \* characters of the key pressed last that have not been read
  esc,        \* cch->esc_save: an escape sequence that is not complete
  cmd,        \* the command being run
  back,       \* where main_loop() goes on when the command returns
  stored_bootdelay,
  pressed,    \* history: the button was held at power-on
  touched,    \* history: a key was read since power-on
  last,       \* history: the key being read, and the entry highlighted before
  ran         \* history: the commands run since power-on

keyVars  == <<typed, esc, last>>
bootVars == <<env, phase, delay, active, keyVars, cmd, back, stored_bootdelay,
              pressed, touched, ran>>

\* The entries of the environment, and Exit behind them.
Count == Len(env.entries) + 1

Command(i) == IF i = Count - 1 THEN NoCommand ELSE env.entries[i + 1]

\* bootmenu_create(): bootmenu_default, unless it is outside the menu.
DefaultEntry == IF env.default \in 0 .. Count - 1 THEN env.default ELSE 0

-----------------------------------------------------------------------------
(* Running a command.                                                       *)

\* run_command(c), after which main_loop() goes on at next. An empty command
\* returns at once.
Run(c, next) ==
  IF c = NoCommand
    THEN phase' = next /\ UNCHANGED <<cmd, back, ran>>
    ELSE /\ phase' = "command"
         /\ cmd' = c /\ back' = next
         /\ ran' = ran \cup {c}

CommandReturns ==
  /\ phase = "command"
  /\ phase' = back
  /\ UNCHANGED <<env, delay, active, keyVars, cmd, back, stored_bootdelay, pressed, touched, ran>>

\* bootm does not return; webflash runs it for an image in RAM.
CommandBoots ==
  /\ phase = "command"
  /\ phase' = "system"
  /\ UNCHANGED <<env, delay, active, keyVars, cmd, back, stored_bootdelay, pressed, touched, ran>>

-----------------------------------------------------------------------------
(* process_button_cmds(): the state of the button is read once. One that    *)
(* has no name or no command in the environment does nothing.               *)

ProcessButtons ==
  /\ phase = "buttons"
  /\ pressed' \in BOOLEAN
  /\ Run(IF pressed' THEN env.button ELSE NoCommand, "bootdelay")
  /\ UNCHANGED <<env, delay, active, keyVars, stored_bootdelay, touched>>

-----------------------------------------------------------------------------
(* The boot menu. "from" is where the menu was called: by bootdelay_process *)
(* or by the bootmenu command.                                              *)

\* Mutant of ShowMenu: without a delay the default entry is run.
ShowMenuDefault(d, from) ==
  \/ d = 0 /\ Run(Command(DefaultEntry), from) /\ UNCHANGED <<delay, active>>
  \/ /\ d # 0
     /\ phase' = "menu" /\ back' = from
     /\ delay' = d /\ active' = DefaultEntry
     /\ UNCHANGED <<cmd, ran>>

\* bootmenu_show() up to the first key. Without a delay there is no menu: the
\* first entry is run, if there is one. There may be no memory for a menu.
ShowMenu(d, from) ==
  \/ d = 0 /\ Run(Command(0), from) /\ UNCHANGED <<delay, active>>
  \/ /\ d # 0
     /\ phase' = "menu" /\ back' = from
     /\ delay' = d /\ active' = DefaultEntry
     /\ UNCHANGED <<cmd, ran>>
  \/ d # 0 /\ phase' = from /\ UNCHANGED <<delay, active, cmd, back, ran>>

\* An entry has been chosen; the last one is Exit.
Choose(i) == Run(Command(i), back)

StayInMenu == UNCHANGED <<phase, cmd, back, ran>>

NoKey == [key |-> <<>>, from |-> 0]

\* The menu is left; what else a key sends is read by whoever comes next.
LeaveMenu == typed' = <<>> /\ esc' = <<>> /\ last' = NoKey

\* Mutant of MenuTick: the delay is not counted down.
MenuTickForever ==
  /\ phase = "menu" /\ delay > 0
  /\ UNCHANGED bootVars

\* bootmenu_autoboot_loop(): a second without a key, or with one that comes right
\* after the last look at the console. What is typed then is for the next reader.
MenuTick ==
  /\ phase = "menu" /\ delay > 0
  /\ delay' = delay - 1
  /\ IF delay' = 0 THEN Choose(active) /\ LeaveMenu
                   ELSE UNCHANGED <<phase, cmd, back, ran, keyVars>>
  /\ UNCHANGED <<env, active, stored_bootdelay, pressed, touched>>

-----------------------------------------------------------------------------
(* Keys. A terminal sends one character for most keys and several for the   *)
(* cursor keys; the menu reads them one by one, and cli_ch_process() puts    *)
(* them together (common/cli_getch.c).                                       *)

CursorUp   == <<"esc", "[", "A">>
CursorDown == <<"esc", "[", "B">>
Home       == <<"esc", "[", "1", "~">>
PageUp     == <<"esc", "[", "5", "~">>

Keys == {CursorUp, CursorDown, Home, PageUp, <<"esc">>, <<"enter">>, <<"^C">>, <<"^P">>, <<"^N">>}
          \cup {<<c>> : c \in DOMAIN ShortcutKey \cup OtherChars}

Typing == phase = "menu" /\ typed # <<>>

PressKey(k) ==
  /\ phase = "menu" /\ typed = <<>>
  /\ typed' = k
  /\ last' = [key |-> k, from |-> active]
  /\ UNCHANGED <<env, phase, delay, active, esc, cmd, back, stored_bootdelay,
                 pressed, touched, ran>>

\* Mutant of CliChProcess: the state is set up anew for every character.
CliChForget(e, c) == [esc |-> <<>>, out |-> IF c = "esc" THEN "none" ELSE c]

\* cli_ch_process(): the escape sequence so far after the character c, and the
\* character the caller gets. A sequence that is not known is handed out again
\* from its start. (Bracketed paste is left out, and with it the sequences that
\* begin with Escape and a capital O.)
CliChProcess(e, c) ==
  CASE c = "enter"                  -> [esc |-> e, out |-> c]
    [] c = "esc" /\ Len(e) < 2      -> [esc |-> <<"esc">>, out |-> "none"]
    [] Len(e) = 1 /\ c = "["        -> [esc |-> <<"esc", "[">>, out |-> "none"]
    [] Len(e) = 2 /\ c = "A"        -> [esc |-> <<>>, out |-> "^P"]
    [] Len(e) = 2 /\ c = "B"        -> [esc |-> <<>>, out |-> "^N"]
    [] Len(e) = 2 /\ c = "1"        -> [esc |-> <<"esc", "[", "1">>, out |-> "none"]
    [] Len(e) = 3 /\ c = "~"        -> [esc |-> <<>>, out |-> "none"]
    [] Len(e) < 2 /\ c \notin {"enter", "esc", "["} -> [esc |-> <<>>, out |-> c]
    [] Len(e) = 0 /\ c = "["        -> [esc |-> <<>>, out |-> c]
    [] OTHER                        -> [esc |-> <<>>, out |-> "esc"]

\* What bootmenu_choice_entry() does about a character: in the countdown, which
\* bootmenu_autoboot_loop() ends with any character, cursor movements do not count.
Act(c) ==
  \/ c = "^P" /\ delay < 0 /\ active' = (IF active > 0 THEN active - 1 ELSE active) /\ StayInMenu
  \/ c = "^N" /\ delay < 0 /\ active' = (IF active < Count - 1 THEN active + 1 ELSE active)
       /\ StayInMenu
  \/ c = "enter" /\ Choose(active) /\ UNCHANGED active
  \/ (c = "^C" \/ (c = "esc" /\ delay < 0)) /\ Choose(Count - 1) /\ UNCHANGED active
  \/ /\ c \in DOMAIN ShortcutKey
     /\ IF ShortcutKey[c] >= Count - 1
          THEN UNCHANGED active /\ StayInMenu
          ELSE /\ active' = IF ShortcutKey[c] = -1 THEN Count - 1 ELSE ShortcutKey[c]
               /\ Choose(active')
  \/ /\ c \in OtherChars \cup {"none", "[", "~"} \/ (c \in {"^P", "^N", "esc"} /\ delay > 0)
     /\ UNCHANGED active /\ StayInMenu

\* A character is read, by the countdown or by bootmenu_loop().
ReadChar ==
  /\ Typing
  /\ LET r == CliChProcess(esc, Head(typed))
     IN  /\ Act(r.out)
         /\ IF phase' # "menu" THEN LeaveMenu
            ELSE /\ esc' = r.esc /\ typed' = Tail(typed)
                 /\ last' = IF typed' = <<>> THEN NoKey ELSE last
  /\ delay' = IF delay > 0 THEN -1 ELSE delay
  /\ touched' = TRUE
  /\ UNCHANGED <<env, stored_bootdelay, pressed>>

\* bootmenu_loop(): nothing follows an escape character for two turns of its
\* loop, so it was the Escape key, or the rest of the sequence is late.
EscTimeout ==
  /\ phase = "menu" /\ delay < 0 /\ esc # <<>>
  /\ Choose(Count - 1) /\ LeaveMenu
  /\ UNCHANGED <<env, delay, active, stored_bootdelay, pressed, touched>>

MenuKey == (\E k \in Keys : PressKey(k)) \/ ReadChar \/ EscTimeout

-----------------------------------------------------------------------------
(* bootdelay_process() and autoboot_command().                              *)

\* The menu, if there is one, is shown before bootdelay_process() returns.
BootdelayProcess ==
  /\ phase = "bootdelay"
  /\ IF env.menu_show
       THEN ShowMenu(env.bootdelay, "autoboot") /\ stored_bootdelay' = -1
       ELSE /\ phase' = "autoboot"
            /\ stored_bootdelay' = env.bootdelay /\ delay' = env.bootdelay
            /\ UNCHANGED <<active, cmd, back, ran>>
  /\ UNCHANGED <<env, keyVars, pressed, touched>>

\* autoboot_command() has nothing to run, or autoboot is off: always so after
\* the menu.
AutobootOff ==
  /\ phase = "autoboot"
  /\ env.bootcmd = NoCommand \/ stored_bootdelay = -1
  /\ phase' = "cli"
  /\ UNCHANGED <<env, delay, active, keyVars, cmd, back, stored_bootdelay, pressed, touched, ran>>

\* A key is pressed in time: before the end of the last second, or at once if
\* there is no delay.
AutobootKey ==
  /\ phase = "autoboot" /\ (delay > 0 \/ stored_bootdelay = 0)
  /\ env.bootcmd # NoCommand /\ stored_bootdelay >= 0
  /\ touched' = TRUE
  /\ phase' = "cli"
  /\ UNCHANGED <<env, delay, active, keyVars, cmd, back, stored_bootdelay, pressed, ran>>

\* A second of the countdown of abortboot_single_key().
AutobootTick ==
  /\ phase = "autoboot" /\ stored_bootdelay >= 0 /\ delay > 0
  /\ env.bootcmd # NoCommand
  /\ delay' = delay - 1
  /\ UNCHANGED <<env, phase, active, keyVars, cmd, back, stored_bootdelay, pressed, touched, ran>>

AutobootRuns ==
  /\ phase = "autoboot" /\ env.bootcmd # NoCommand
  /\ stored_bootdelay # -1 /\ delay <= 0
  /\ Run(env.bootcmd, "cli")
  /\ UNCHANGED <<env, delay, active, keyVars, stored_bootdelay, pressed, touched>>

-----------------------------------------------------------------------------
(* The command line: cli_loop() reads commands for ever.                    *)

CliBootmenu ==
  /\ phase = "cli"
  /\ \E d \in CliDelays : ShowMenu(d, "cli")
  /\ UNCHANGED <<env, keyVars, stored_bootdelay, pressed, touched>>

CliWebflash ==
  /\ phase = "cli"
  /\ Run("webflash", "cli")
  /\ UNCHANGED <<env, delay, active, keyVars, stored_bootdelay, pressed, touched>>

\* reset, a power cycle, or the reboot of the recovery server
Reset ==
  /\ phase' = "buttons"
  /\ ran' = {} /\ touched' = FALSE /\ pressed' = FALSE
  /\ delay' = 0 /\ active' = 0 /\ stored_bootdelay' = 0
  /\ cmd' = NoCommand /\ back' = "cli"
  /\ LeaveMenu
  /\ UNCHANGED env

-----------------------------------------------------------------------------
BootInit ==
  /\ env \in Environments
  /\ phase = "buttons"
  /\ delay = 0 /\ active = 0
  /\ typed = <<>> /\ esc = <<>> /\ last = NoKey
  /\ cmd = NoCommand /\ back = "cli"
  /\ stored_bootdelay = 0
  /\ pressed = FALSE /\ touched = FALSE
  /\ ran = {}

BootStep ==
  \/ ProcessButtons \/ BootdelayProcess
  \/ MenuTick \/ AutobootTick \/ AutobootOff \/ AutobootRuns
  \/ CommandReturns \/ CommandBoots

BootNext ==
  \/ BootStep
  \/ MenuKey
  \/ AutobootKey
  \/ CliBootmenu \/ CliWebflash
  \/ Reset

BootSpec == BootInit /\ [][BootNext]_bootVars

\* main_loop() does not wait except for the clock, which does not stand still;
\* nothing is assumed about keys, nor about commands coming to an end.
FairBootSpec ==
  /\ BootSpec
  /\ WF_bootVars(ProcessButtons \/ BootdelayProcess \/ AutobootOff \/ AutobootRuns)
  /\ WF_bootVars(MenuTick) /\ WF_bootVars(AutobootTick)

-----------------------------------------------------------------------------
\* The entry highlighted is one of the menu, whatever number the environment
\* names as the default: bootmenu_choice_entry() walks a list of Count entries.
BootTypeOK ==
  /\ phase \in {"buttons", "bootdelay", "menu", "autoboot", "command", "cli", "system"}
  /\ back \in {"bootdelay", "autoboot", "cli"}
  /\ delay \in Int /\ stored_bootdelay \in Int
  /\ pressed \in BOOLEAN /\ touched \in BOOLEAN
  /\ phase = "menu" => active \in 0 .. Count - 1

\* What a board does that nobody touches: the entry bootmenu_default names if
\* there is a countdown, the first entry if there is none or no entry of that
\* number, and with a negative delay nothing at all before a key is pressed
\* (bootmenu_show()). An environment outlives the menu it was saved for. This is
\* what the code does; doc/usage/cmd/bootmenu.rst knows no default entry and says
\* that it is always the first (FirstEntryAfterDelay, below).
UnattendedChoice ==
  phase = "command" /\ back = "autoboot" /\ ~touched =>
    /\ env.bootdelay >= 0
    /\ cmd = env.entries[IF env.bootdelay = 0 \/ env.default + 1 \notin DOMAIN env.entries
                          THEN 1 ELSE env.default + 1]

\* A cursor key moves the highlight by one entry from where it was when the key
\* was pressed, and chooses nothing, although the menu sees several characters:
\* the first may end the countdown and be read by bootmenu_autoboot_loop(), the
\* others by bootmenu_loop(), an Escape key may have come just before, and each
\* character alone would quit the menu or is the shortcut of an entry.
CursorKeyMoves ==
  [][ReadChar /\ typed' = <<>> /\ last.key \in {CursorUp, CursorDown} =>
       /\ phase' = "menu"
       /\ active' = IF last.key = CursorUp
                      THEN (IF last.from > 0 THEN last.from - 1 ELSE 0)
                      ELSE (IF last.from < Count - 1 THEN last.from + 1 ELSE Count - 1)]_bootVars

\* A countdown comes to an end, or a key stops it: neither loop waits for
\* something that does not come.
BootProceeds ==
  (phase \in {"menu", "autoboot"} /\ delay > 0)
    ~> (phase \notin {"menu", "autoboot"} \/ delay < 0)

-----------------------------------------------------------------------------
(* The inductive invariant behind these.                                    *)

\* A menu that no key was pressed in since power-on is still at its default
\* entry, and counts down only if the environment says so.
UntouchedMenu ==
  phase = "menu" /\ back = "autoboot" /\ ~touched =>
    /\ active = DefaultEntry
    /\ env.bootdelay # 0 /\ (delay > 0 => env.bootdelay > 0)

BootInv == env \in Environments /\ BootTypeOK /\ UntouchedMenu /\ UnattendedChoice

\* How much of a key has been read. An Escape may be pending when a key is
\* pressed; from then on the sequence so far is what was read of the key.
KeyProgress ==
  \/ typed = <<>> /\ esc \in {<<>>, <<"esc">>}
  \/ /\ last.from = active
     /\ \/ typed \in Keys /\ last.key = typed /\ esc \in {<<>>, <<"esc">>}
        \/ /\ last.key \in {CursorUp, CursorDown, Home, PageUp}
           /\ \/ typed = Tail(last.key) /\ esc = <<"esc">>
              \/ typed = Tail(Tail(last.key)) /\ esc = <<"esc", "[">>
        \/ last.key = Home /\ typed = <<"~">> /\ esc = <<"esc", "[", "1">>

\* Only the menu reads keys, and never with the delay at zero; a sequence that is
\* not complete has stopped the countdown.
KeyInv ==
  /\ phase # "menu" => typed = <<>> /\ esc = <<>>
  /\ phase = "menu" => delay # 0 /\ (esc # <<>> => delay < 0) /\ KeyProgress

-----------------------------------------------------------------------------
(* What the documentation says and the code does not do: TLC refutes these. *)

\* mydoc/bootmenu.md says that during the countdown any ordinary key stops the
\* automatic choice and leaves the menu at its default entry.
AnyKeyStops ==
  [][ReadChar /\ delay > 0 /\ Head(typed) \in DOMAIN ShortcutKey => phase' = "menu"]_bootVars

\* doc/usage/cmd/bootmenu.rst:34-36 says that after the delay the first menu entry
\* is selected; the code selects the one bootmenu_default names.
FirstEntryAfterDelay ==
  phase = "command" /\ back = "autoboot" /\ ~touched => cmd = env.entries[1]

\* mydoc/bootmenu.md says that the default entry of the menu is Exit and that
\* the end of the countdown leads to the command line.
CountdownExits == phase = "command" /\ back = "autoboot" => touched

\* common/main.c says of autoboot_command(): if no key interrupts it, the boot
\* command chosen before is run. A build with the menu never does, since
\* menu_show() always asks for the command line.
BootcmdRuns ==
  phase = "cli" /\ ~touched /\ env.bootdelay # -1 => env.bootcmd \in ran \cup {NoCommand}

\* boot/Kconfig says that with a bootdelay of -2 the board boots without delay.
MinusTwoBoots == env.bootdelay = -2 => phase # "menu"
=============================================================================

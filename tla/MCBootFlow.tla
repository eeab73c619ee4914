----------------------------- MODULE MCBootFlow -----------------------------
(* Environments of every shape: saved ones may lack the menu, the button or  *)
(* the boot command, and name any default and any delay.                     *)
EXTENDS BootFlow

WithMenu ==
  [menu_show : {TRUE}, bootdelay : {-2, -1, 0, 2},
   entries : {<<>>, <<"boot_spi">>, <<"boot_spi", "webflash">>},
   default : {-1, 0, 1, 7}, button : {NoCommand, "webflash"}, bootcmd : {"bootcmd"}]

WithoutMenu ==
  [menu_show : {FALSE}, bootdelay : {-2, -1, 0, 2},
   entries : {<<"boot_spi", "webflash">>}, default : {0},
   button : {NoCommand, "webflash"}, bootcmd : {NoCommand, "boot_spi", "bootcmd"}]

MCEnvironments == WithMenu \cup WithoutMenu

\* The menu of the board has ten shortcuts and then letters, this one has two.
MCShortcutKey == [c \in {"0", "1", "A", "B", "5"} |->
                    CASE c = "0" -> -1 [] c = "1" -> 0 [] c = "A" -> 1 [] c = "B" -> 2 [] c = "5" -> 4]

MCCliDelays == {-1, 0, 2}
=============================================================================

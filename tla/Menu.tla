-------------------------------- MODULE Menu --------------------------------
(***************************************************************************)
(* app/menu.c: the twelve categories, the list of a category, the edit of  *)
(* an item, and what saving does to the stored setting, to the module that *)
(* works from a copy of it and to the flash.                               *)
(*                                                                         *)
(* Of all the settings one field is watched: its value is followed from    *)
(* the raw bytes on, those of the others are read as anything.  The editor *)
(* of channel names is module Panels; here it is open or it is not.        *)
(***************************************************************************)
EXTENDS Integers, Sequences

CONSTANTS
  Watchable,     \* the fields a behaviour may watch
  RawValues,     \* what the watched field may hold before it is edited
  RangeCap,      \* bound: values above it are not dialled
  Visited        \* bound: the categories that are entered

MenuMax ==
  [VOX_SWITCH |-> 1, VOX_LEVEL |-> 9, VOX_DELAY |-> 7,
   STEP |-> 7, OFFSET_DIR |-> 2, OFFSET_FREQ |-> 255, MODULATION |-> 3,
   CH_NAME |-> 0, CTCSS_TX |-> 50, CTCSS_RX |-> 50, DCS_TX |-> 104,
   DCS_RX |-> 104, SCRAMBLER |-> 1, SCAN_ADD |-> 1, SQUELCH |-> 9,
   TX_POWER |-> 2, BANDWIDTH |-> 1, BCL |-> 1, TOT |-> 8, STE |-> 1,
   ROGER |-> 4, SCAN_MODE |-> 2, RPSTE |-> 1, RPT_RL |-> 1,
   DUAL_WATCH |-> 1, BATTERY_SAVE |-> 1, CROSSBAND |-> 3,
   APRS_ENABLE |-> 1, APRS_SYMBOL |-> 4, BT_SWITCH |-> 1, PTT_ID |-> 3,
   DTMF_ST |-> 1, BEEP |-> 1, VOICE_PROMPT |-> 1, KEY_LOCK |-> 1,
   MENU_TIMEOUT |-> 4, POWER_MSG |-> 2, BREATH_LED |-> 1,
   NOAA_ALARM |-> 1, BACKLIGHT |-> 2, AUTO_POWER_OFF |-> 3,
   FACTORY_RESET |-> 1, ABOUT_VERSION |-> 0]

MenuItems == DOMAIN MenuMax

\* categories, in the order of the table; Zone and User Key are empty.
MenuCategories == <<
  <<"VOX_SWITCH", "VOX_LEVEL", "VOX_DELAY">>,
  << >>,
  <<"STEP", "OFFSET_DIR", "OFFSET_FREQ", "MODULATION", "CH_NAME">>,
  <<"CTCSS_TX", "CTCSS_RX", "DCS_TX", "DCS_RX", "SCRAMBLER", "SCAN_ADD">>,
  <<"SQUELCH", "TX_POWER", "BANDWIDTH", "BCL", "TOT", "STE", "ROGER",
    "SCAN_MODE", "RPSTE", "RPT_RL", "DUAL_WATCH", "BATTERY_SAVE", "CROSSBAND">>,
  <<"APRS_ENABLE", "APRS_SYMBOL">>,
  << >>,
  <<"BT_SWITCH">>,
  <<"PTT_ID", "DTMF_ST">>,
  <<"BEEP", "VOICE_PROMPT", "KEY_LOCK", "MENU_TIMEOUT", "POWER_MSG",
    "BREATH_LED", "NOAA_ALARM", "BACKLIGHT", "AUTO_POWER_OFF">>,
  <<"FACTORY_RESET">>,
  <<"ABOUT_VERSION">> >>

\* Items that set no field.
Fieldless == {"SCAN_ADD", "CH_NAME", "FACTORY_RESET", "ABOUT_VERSION"}

Tones == {"CTCSS_TX", "CTCSS_RX", "DCS_TX", "DCS_RX"}

\* is_vfo_item.
VfoItems == Tones \cup {"STEP", "OFFSET_DIR", "OFFSET_FREQ", "MODULATION",
  "BANDWIDTH", "SCRAMBLER", "SQUELCH", "TX_POWER", "BCL"}

\* The two DCS items edit the same field of the VFO.
Field(i) == IF i = "DCS_RX" THEN "DCS_TX" ELSE i

\* Fields another module works from a copy of: the transceiver, vox.c,
\* crossband.c and power.c.  The others are read where they are used.
Copied == Tones \cup {"SQUELCH", "BANDWIDTH", "MODULATION", "SCRAMBLER",
                      "VOX_LEVEL", "CROSSBAND", "AUTO_POWER_OFF"}

step_table == <<2500, 5000, 6250, 10000, 12500, 25000, 50000, 100000>>
valid_steps ==
  {2500, 5000, 6250, 10000, 12500, 15000, 20000, 25000, 30000, 50000}

ASSUME MenuAssumption ==
  /\ Watchable \subseteq {Field(i) : i \in MenuItems \ Fieldless}
  /\ RawValues \in [Watchable -> SUBSET Nat]
  /\ \A f \in Watchable \ {"STEP", "OFFSET_FREQ"} : RawValues[f] \subseteq 0 .. 255
  /\ RangeCap \in Nat
  /\ Visited \subseteq DOMAIN MenuCategories

VARIABLES
  menu_state, cur_category, cur_item_idx, list_scroll, edit_value,
  watched,       \* the field followed
  stored,        \* its value in settings, the VFO or the APRS configuration
  copy,          \* the value its copy was last set from, or Unset
  kept,          \* its value in the flash
  shown          \* history: the item and value just saved and the raw value before

menuVars == <<menu_state, cur_category, cur_item_idx, list_scroll, edit_value,
              watched, stored, copy, kept, shown>>

Unset == 1000
NothingSaved == [item |-> "none"]

MenuTypeOK ==
  /\ menu_state \in {"CLOSED", "CATEGORY", "LIST", "EDIT"}
  /\ cur_category \in DOMAIN MenuCategories
  /\ cur_item_idx \in 0 .. 12 /\ list_scroll \in 0 .. 7
  /\ edit_value \in 0 .. 255
  /\ watched \in Watchable
  /\ stored \in Nat /\ copy \in Nat /\ kept \in Nat

MenuInit ==
  /\ menu_state = "CLOSED"
  /\ cur_category = 1
  /\ cur_item_idx = 0 /\ list_scroll = 0 /\ edit_value = 0
  /\ watched \in Watchable
  /\ stored \in RawValues[watched]
  /\ copy = Unset
  /\ kept = stored
  /\ shown = NothingSaved

-----------------------------------------------------------------------------

Cat == MenuCategories[cur_category]
MenuItem == Cat[cur_item_idx + 1]
MaxOf(i) == IF MenuMax[i] > RangeCap THEN RangeCap ELSE MenuMax[i]

\* The getters.  A step the table does not have reads as 12.5 kHz, an offset
\* is cut to whole 100 kHz and to a byte.
Getter(i, raw) ==
  CASE i \in Fieldless -> 0
    [] i \in Tones -> IF raw = 255 THEN 0 ELSE (raw + 1) % 256
    [] i = "STEP" -> IF \E k \in DOMAIN step_table : step_table[k] = raw
                     THEN (CHOOSE k \in DOMAIN step_table : step_table[k] = raw) - 1
                     ELSE 4
    [] i = "OFFSET_FREQ" -> (raw \div 100000) % 256
    [] i = "APRS_SYMBOL" -> IF raw < 5 THEN raw ELSE 0
    [] OTHER -> raw

\* The setters, with the check vfo_set_step makes: it knows no step of
\* 100 kHz.
Setter(i, v) ==
  CASE i \in Tones -> IF v = 0 THEN 255 ELSE v - 1
    [] i = "STEP" -> IF step_table[v + 1] \in valid_steps THEN step_table[v + 1]
                     ELSE 12500
    [] i = "OFFSET_FREQ" -> v * 100000
    [] OTHER -> v

\* settings_factory_reset writes the defaults and tells no module: the copies
\* stay.  The VFOs and the APRS configuration are not settings.
FactoryReset ==
  /\ IF watched \notin VfoItems \cup {"APRS_SYMBOL"}
     THEN \E v \in RawValues[watched] : stored' = v /\ kept' = v
     ELSE UNCHANGED <<stored, kept>>
  /\ UNCHANGED copy

\* Mutant of SaveField: the VFO is not saved.
SaveFieldInRam(i) ==
  /\ stored' = Setter(i, edit_value)
  /\ copy' = IF i \in Copied THEN stored' ELSE copy
  /\ kept' = IF i \in VfoItems \cup {"APRS_SYMBOL"} THEN kept ELSE stored'

\* Saving an item of the watched field.  vox_set_level takes at most 9;
\* settings_set_u8 and vfo_save write the flash, aprs_config_save does not.
SaveField(i) ==
  /\ stored' = Setter(i, edit_value)
  /\ copy' = CASE i = "VOX_LEVEL" -> IF stored' > 9 THEN 9 ELSE stored'
               [] i = "AUTO_POWER_OFF" -> IF stored' < 4 THEN stored' ELSE copy
               [] i \in Copied \ {"VOX_LEVEL", "AUTO_POWER_OFF"} -> stored'
               [] OTHER -> copy
  /\ kept' = IF i = "APRS_SYMBOL" THEN kept ELSE stored'

SaveItem ==
  LET i == MenuItem
  IN /\ menu_state' = "LIST"
     /\ IF i = "FACTORY_RESET" /\ edit_value # 0 THEN FactoryReset
        ELSE IF i \notin Fieldless /\ Field(i) = watched THEN SaveField(i)
        ELSE UNCHANGED <<stored, copy, kept>>
     /\ shown' = IF i \notin Fieldless /\ Field(i) = watched
                 THEN [item |-> i, value |-> edit_value, before |-> stored]
                 ELSE NothingSaved
     /\ UNCHANGED <<cur_category, cur_item_idx, list_scroll, edit_value, watched>>

Unedited == UNCHANGED <<watched, stored, copy, kept>>

\* Opening an item: its getter fills the edit view.
OpenItem ==
  LET i == MenuItem
  IN /\ i # "ABOUT_VERSION"
     /\ menu_state' = "EDIT"
     /\ edit_value' \in IF i = "CH_NAME" THEN {edit_value}
                        ELSE IF i \in Fieldless THEN {0}
                        ELSE IF Field(i) = watched THEN {Getter(i, stored)}
                        ELSE {0, MaxOf(i)}
     /\ UNCHANGED <<cur_category, cur_item_idx, list_scroll>>

MenuKeys == {"C_MENU", "HASH", "D_BAND"} \cup {"0", "1", "3", "9"}
DigitOf == [k \in {"0", "1", "3", "9"} |->
              CASE k = "0" -> 0 [] k = "1" -> 1 [] k = "3" -> 3 [] k = "9" -> 9]

\* menu_handle_key.
KeyClosed(k) ==
  /\ menu_state = "CLOSED" /\ k = "C_MENU"
  /\ menu_state' = "CATEGORY" /\ cur_category' = 1
  /\ UNCHANGED <<cur_item_idx, list_scroll, edit_value>>

KeyCategory(k) ==
  /\ menu_state = "CATEGORY"
  /\ \/ /\ k = "C_MENU" /\ Len(Cat) > 0 /\ cur_category \in Visited
        /\ menu_state' = "LIST" /\ cur_item_idx' = 0 /\ list_scroll' = 0
     \/ /\ k = "HASH"
        /\ menu_state' = "CLOSED" /\ UNCHANGED <<cur_item_idx, list_scroll>>
  /\ UNCHANGED <<cur_category, edit_value>>

KeyList(k) ==
  /\ menu_state = "LIST"
  /\ \/ k = "C_MENU" /\ OpenItem
     \/ /\ k = "HASH" /\ menu_state' = "CATEGORY"
        /\ UNCHANGED <<cur_category, cur_item_idx, list_scroll, edit_value>>

\* The editor of names takes every key until OK or BAND ends it.
KeyName(k) ==
  /\ menu_state = "EDIT" /\ MenuItem = "CH_NAME"
  /\ k \in {"C_MENU", "D_BAND"}
  /\ menu_state' = "LIST"
  /\ UNCHANGED <<cur_category, cur_item_idx, list_scroll, edit_value>>

KeyEdit(k) ==
  /\ menu_state = "EDIT" /\ MenuItem # "CH_NAME"
  /\ \/ k = "HASH" /\ menu_state' = "LIST" /\ UNCHANGED edit_value
     \/ /\ k \in DOMAIN DigitOf /\ DigitOf[k] <= MaxOf(MenuItem)
        /\ edit_value' = DigitOf[k] /\ UNCHANGED menu_state
  /\ UNCHANGED <<cur_category, cur_item_idx, list_scroll>>

menu_handle_key == \E k \in MenuKeys :
  \/ /\ KeyClosed(k) \/ KeyCategory(k) \/ KeyList(k) \/ KeyName(k) \/ KeyEdit(k)
     /\ shown' = NothingSaved
     /\ Unedited
  \/ /\ menu_state = "EDIT" /\ MenuItem # "CH_NAME" /\ k = "C_MENU"
     /\ SaveItem

Stepped(value, direction, low, high) ==
  IF direction > 0 /\ value < high THEN value + 1
  ELSE IF direction < 0 /\ value > low THEN value - 1
  ELSE value

\* menu_handle_encoder.  The list shows six lines.
menu_handle_encoder == \E direction \in {-1, 1} :
  /\ \/ /\ menu_state = "CATEGORY"
        /\ cur_category' = Stepped(cur_category, direction, 1, Len(MenuCategories))
        /\ UNCHANGED <<cur_item_idx, list_scroll, edit_value>>
     \/ /\ menu_state = "LIST"
        /\ cur_item_idx' = Stepped(cur_item_idx, direction, 0, Len(Cat) - 1)
        /\ list_scroll' = IF cur_item_idx' < list_scroll THEN cur_item_idx'
                          ELSE IF cur_item_idx' >= list_scroll + 6
                               THEN cur_item_idx' - 5
                          ELSE list_scroll
        /\ UNCHANGED <<cur_category, edit_value>>
     \/ /\ menu_state = "EDIT" /\ MenuItem # "CH_NAME"
        /\ edit_value' = Stepped(edit_value, direction, 0, MaxOf(MenuItem))
        /\ UNCHANGED <<cur_category, cur_item_idx, list_scroll>>
  /\ shown' = NothingSaved
  /\ UNCHANGED menu_state
  /\ Unedited

MenuNext == menu_handle_key \/ menu_handle_encoder

-----------------------------------------------------------------------------

\* format_value: the highest value of an item that has a text of its own;
\* the switches and the offset have one for every value.
LastText ==
  [SQUELCH |-> 9, TX_POWER |-> 2, MODULATION |-> 3, STEP |-> 7,
   CTCSS_TX |-> 50, CTCSS_RX |-> 50, DCS_TX |-> 104, DCS_RX |-> 104,
   VOX_LEVEL |-> 9, VOX_DELAY |-> 7, TOT |-> 8, OFFSET_DIR |-> 2,
   ROGER |-> 4, SCAN_MODE |-> 2, BACKLIGHT |-> 2, AUTO_POWER_OFF |-> 3,
   MENU_TIMEOUT |-> 4, POWER_MSG |-> 2, PTT_ID |-> 3, CROSSBAND |-> 3,
   APRS_SYMBOL |-> 4]

HasText(i, v) == i \in DOMAIN LastText => v <= LastText[i]

(* What was on the screen when OK was pressed is what the setting reads as *)
(* from then on, what the module that copied it works with and what the    *)
(* flash holds; a value the menu can name is never replaced by one it      *)
(* cannot, and one that is saved unchanged stays as it was.  The step of   *)
(* 100 kHz, which the VFO refuses, and the APRS symbol, which is kept in   *)
(* RAM only, are the exceptions the code makes; a raw value the getter     *)
(* rounds is rounded by saving it.                                         *)
MenuSavesWhatItShows ==
  shown.item # "none" =>
    LET i == shown.item
        before == Getter(i, shown.before)
    IN /\ <<i, shown.value>> # <<"STEP", 7>> => Getter(i, stored) = shown.value
       /\ i \in Copied /\ HasText(i, shown.value) => copy = stored
       /\ i = "APRS_SYMBOL" \/ kept = stored
       /\ HasText(i, before) => HasText(i, shown.value)
       /\ shown.value = before /\ Setter(i, before) = shown.before
            => stored = shown.before
=============================================================================

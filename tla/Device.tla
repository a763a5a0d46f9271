------------------------------- MODULE Device -------------------------------
(* Sixteen views of the firmware, each of one part, side by side: the      *)
(* keypad, the knob, the speaker, the power switch, the clients of the     *)
(* transmitter, the channel memory, the VFOs and their chips, the scanner, *)
(* the spectrum, dual watch with the DTMF decoder, the menu, the entry     *)
(* panels, the serial ports, the GPS data, the broadcast receivers and     *)
(* APRS.                                                                   *)
(*                                                                         *)
(* The modules have no variable in common, so a behaviour follows one of   *)
(* them, `unit', and holds the others in their first state.  The code has  *)
(* more in common than the views: who writes the relay pins and the        *)
(* transmit registers - the key, VOX, the relay, APRS, the tones, the      *)
(* power switch - is in Radio.tla, and who posts to and drains the event   *)
(* queue in MainLoop.tla.  A view gives what a neighbour does to it as an  *)
(* input that may come at any time.                                        *)
EXTENDS Keypad, Encoder, Audio, Power, PttClients, ChannelStore, VfoTones,
        Scanner, Spectrum, DualWatch, Menu, Panels, Serial, Gps, Broadcast,
        Aprs

VARIABLE unit   \* the part a behaviour follows

Units == {"keypad", "encoder", "audio", "power", "ptt", "channels", "tones",
          "scanner", "spectrum", "dual", "menu", "panels", "serial", "gps",
          "broadcast", "aprs"}

(* A part that is not followed starts in one of its first states.          *)
Still ==
  /\ unit # "menu" => watched = CHOOSE f \in Watchable : TRUE
  /\ unit # "menu" => stored = CHOOSE v \in RawValues[watched] : TRUE
  /\ unit # "panels" => kind = "text"
  /\ unit # "serial" => port = "cps"
  /\ unit # "broadcast" => fm = FmBoot /\ part = "boots"
  /\ unit # "aprs" => /\ config = ConfigOf(CHOOSE f \in Configs : TRUE)
                      /\ chip_keyed = 0

DeviceInit ==
  /\ unit \in Units
  /\ KeypadInit /\ EncoderInit /\ AudioInit /\ PowerInit /\ PttInit
  /\ ChannelInit /\ TonesInit /\ ScanInit /\ SpectrumInit /\ DualInit
  /\ MenuInit /\ PanelsInit /\ SerialInit /\ GpsInit /\ BroadcastInit
  /\ AprsInit
  /\ Still

inputVars == <<keypadVars, encoderVars, audioVars, powerVars>>
radioPartVars ==
  <<pttVars, channelVars, tonesVars, scanVars, spectrumVars, dualVars>>
panelPartVars == <<menuVars, panelsVars>>
linkVars == <<serialVars, gpsVars, broadcastVars, aprsVars>>

InputStep ==
  /\ \/ /\ unit = "keypad" /\ KeypadNext
        /\ UNCHANGED <<encoderVars, audioVars, powerVars>>
     \/ /\ unit = "encoder" /\ EncoderNext
        /\ UNCHANGED <<keypadVars, audioVars, powerVars>>
     \/ /\ unit = "audio" /\ AudioNext
        /\ UNCHANGED <<keypadVars, encoderVars, powerVars>>
     \/ /\ unit = "power" /\ PowerNext
        /\ UNCHANGED <<keypadVars, encoderVars, audioVars>>
  /\ UNCHANGED <<radioPartVars, panelPartVars, linkVars>>

RadioStep ==
  /\ \/ /\ unit = "ptt" /\ PttNext
        /\ UNCHANGED <<channelVars, tonesVars, scanVars, spectrumVars, dualVars>>
     \/ /\ unit = "channels" /\ ChannelNext
        /\ UNCHANGED <<pttVars, tonesVars, scanVars, spectrumVars, dualVars>>
     \/ /\ unit = "tones" /\ TonesNext
        /\ UNCHANGED <<pttVars, channelVars, scanVars, spectrumVars, dualVars>>
     \/ /\ unit = "scanner" /\ ScanNext
        /\ UNCHANGED <<pttVars, channelVars, tonesVars, spectrumVars, dualVars>>
     \/ /\ unit = "spectrum" /\ SpectrumNext
        /\ UNCHANGED <<pttVars, channelVars, tonesVars, scanVars, dualVars>>
     \/ /\ unit = "dual" /\ DualNext
        /\ UNCHANGED <<pttVars, channelVars, tonesVars, scanVars, spectrumVars>>
  /\ UNCHANGED <<inputVars, panelPartVars, linkVars>>

PanelStep ==
  /\ \/ unit = "menu" /\ MenuNext /\ UNCHANGED panelsVars
     \/ unit = "panels" /\ PanelsNext /\ UNCHANGED menuVars
  /\ UNCHANGED <<inputVars, radioPartVars, linkVars>>

LinkStep ==
  /\ \/ /\ unit = "serial" /\ SerialNext
        /\ UNCHANGED <<gpsVars, broadcastVars, aprsVars>>
     \/ /\ unit = "gps" /\ GpsNext
        /\ UNCHANGED <<serialVars, broadcastVars, aprsVars>>
     \/ /\ unit = "broadcast" /\ BroadcastNext
        /\ UNCHANGED <<serialVars, gpsVars, aprsVars>>
     \/ /\ unit = "aprs" /\ AprsNext
        /\ UNCHANGED <<serialVars, gpsVars, broadcastVars>>
  /\ UNCHANGED <<inputVars, radioPartVars, panelPartVars>>

deviceVars == <<unit, inputVars, radioPartVars, panelPartVars, linkVars>>

DeviceNext ==
  /\ InputStep \/ RadioStep \/ PanelStep \/ LinkStep
  /\ UNCHANGED unit

DeviceSpec == DeviceInit /\ [][DeviceNext]_deviceVars

-----------------------------------------------------------------------------

(* Every variable of every part stays in its type.                         *)
DeviceTypeOK ==
  /\ unit \in Units
  /\ unit = "keypad" => KeypadTypeOK
  /\ unit = "encoder" => EncoderTypeOK
  /\ unit = "audio" => AudioTypeOK
  /\ unit = "power" => PowerTypeOK
  /\ unit = "ptt" => PttTypeOK
  /\ unit = "channels" => ChannelTypeOK
  /\ unit = "tones" => TonesTypeOK
  /\ unit = "scanner" => ScanTypeOK
  /\ unit = "spectrum" => SpectrumTypeOK
  /\ unit = "dual" => DualTypeOK
  /\ unit = "menu" => MenuTypeOK
  /\ unit = "panels" => PanelsTypeOK
  /\ unit = "serial" => SerialTypeOK
  /\ unit = "gps" => GpsTypeOK
  /\ unit = "broadcast" => BroadcastTypeOK
  /\ unit = "aprs" => AprsTypeOK

(* What the hands do is what the firmware is told: a key that is reported  *)
(* pressed is reported released before another is, and once all keys are   *)
(* up; the steps keypad.c and encoder.c report and the fraction they keep  *)
(* add up to where the shaft is, while the poll keeps up with it.          *)
InputsMatchHands == PressesAreReleased /\ DetentsFollowShaft

(* A search shows what it heard: the scan stops only where the squelch was *)
(* open after settling and shows the channel it is on (scanner.c); the     *)
(* bars of the spectrum stand at the frequencies they were read at         *)
(* (spectrum.c).                                                           *)
SearchShowsWhatItHears ==
  /\ unit = "scanner" => ScanHearsWhatItShows
  /\ unit = "spectrum" => SpectrumShowsItsSweep

(* What a screen shows is what is kept: a menu item that is saved reads    *)
(* back as the choice that was shown, in the setting, in its copy and in   *)
(* the flash (menu.c); and a panel never leaves its buffer, its window or  *)
(* the band of a frequency entry (text_input.c, dtmf_contacts.c,           *)
(* freq_entry.c).                                                          *)
PanelsShowWhatIsKept ==
  /\ unit = "menu" => MenuSavesWhatItShows
  /\ unit = "panels" => PanelsKeepTheirPlace

(* What comes over a wire means what was sent: the frames, sentences and   *)
(* relayed bytes of the serial ports keep their order and their parts      *)
(* (cps.c, gps.c, bluetooth.c), and the position, the time and the quality *)
(* of the fix are what the receiver last said of them (gps.c).             *)
LinksCarryWhatWasSent ==
  /\ unit = "serial" => BytesKeepTheirOrder
  /\ unit = "gps" => GpsShowsTheFix
=============================================================================

---- MODULE HalObjects ----
(***************************************************************************)
(* The objects the plug-in publishes and what it answers about them        *)
(* (HasProperty, IsPropertySettable, GetPropertyData and SetPropertyData   *)
(* of src/plugin/XboxHeadset.c), as far as the answers depend on each      *)
(* other: who owns whom, and which control takes which value.              *)
(***************************************************************************)
EXTENDS Integers

Streams  == {"Stream_Output", "Stream_Input"}
Controls == {"Volume_Output", "Mute_Output"}
Objects  == {"PlugIn", "Device"} \cup Streams \cup Controls
Scopes   == {"Global", "Input", "Output"}

\* kAudioObjectPropertyOwner
Owner(o) ==
  CASE o = "PlugIn" -> "Unknown"
    [] o = "Device" -> "PlugIn"
    [] OTHER        -> "Device"

\* kAudioDevicePropertyStreams
StreamList(scope) ==
  (IF scope \in {"Output", "Global"} THEN {"Stream_Output"} ELSE {})
  \cup (IF scope \in {"Input", "Global"} THEN {"Stream_Input"} ELSE {})

\* kAudioObjectPropertyControlList
ControlList == {"Volume_Output", "Mute_Output"}

\* kAudioObjectPropertyOwnedObjects; controls belong to the output.  Streams do
\* not know the property.
Owned(o, scope) ==
  CASE o = "PlugIn" -> {"Device"}
    [] o = "Device" -> StreamList(scope) \cup
                       (IF scope = "Input" THEN {} ELSE ControlList)
    [] o \in Controls -> {}

\* The values of a control that can be read.
Readable(o) ==
  CASE o = "Volume_Output" -> {"scalar", "decibel"}
    [] o = "Mute_Output"   -> {"boolean"}
    [] OTHER               -> {}

Values == {"scalar", "decibel", "boolean"}

\* IsPropertySettable, which first asks whether the property is there.
Settable(o, p) ==
  /\ p \in Readable(o)
  /\ \/ p \in {"scalar", "decibel"} /\ o = "Volume_Output"
     \/ p = "boolean" /\ o = "Mute_Output"

\* The object for which SetPropertyData takes a value, and the properties whose
\* change it reports.
Target(p) == IF p = "boolean" THEN "Mute_Output" ELSE "Volume_Output"

ChangedOnlyScalar(o) ==
  IF o = "Mute_Output" THEN {"boolean"} ELSE {"scalar"}

Changed(o) ==
  IF o = "Mute_Output" THEN {"boolean"} ELSE {"scalar", "decibel"}
====

-------------------------- MODULE MCDeviceStreams --------------------------
(* With OpenNIGrabber a camera, a file without infrared and one without    *)
(* images; with ONIGrabber a file with infrared that is played once.       *)
EXTENDS DeviceStreams

MCDevices ==
    {[kind |-> "camera", streams |-> Streams, repeat |-> FALSE],
     [kind |-> "file", streams |-> {"image", "depth"}, repeat |-> TRUE],
     [kind |-> "file", streams |-> {"depth", "ir"}, repeat |-> TRUE],
     [kind |-> "oni", streams |-> {"depth", "ir"}, repeat |-> FALSE]}
=============================================================================

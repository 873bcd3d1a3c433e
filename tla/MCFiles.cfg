CONSTANTS
    MaxHandles = 3
    Channels = {"usb", "bt"}
SPECIFICATION Spec
CONSTRAINT OneStruck
INVARIANTS HandlesKept UsbReleased TableIsOpenFiles PiecesReachTheirFile
